---------------------------- MODULE Spec2Model ----------------------------
(***************************************************************************)
(* A model of the link-collection and link-evaluation pipeline of the      *)
(* unearth core: the Link value object (src/src/link.rs), the Evaluator    *)
(* (src/src/evaluator.rs), the source collector (src/src/source.rs), the   *)
(* error kinds (src/src/error.rs) and the hasher (src/src/hash.rs).        *)
(*                                                                         *)
(* Strings are sequences of one-character strings, so that prefix tests,   *)
(* splitting, the ssh rewrite and URL parsing are computed as the code     *)
(* computes them.  Option<T> is <<>> (None) or <<x>> (Some(x)).            *)
(***************************************************************************)
EXTENDS Integers, Sequences, FiniteSets, TLC

VARIABLES
    evaluator,  \* the Evaluator's fields (evaluator.rs:59-67)
    session,    \* the PyPISession's trusted_host_ports (session.rs:4-7)
    link,       \* Option<Link>: the Link the last operation built or took
    result,     \* the last operation's return value (Ok / Err / Panic)
    requests,   \* the HTTP requests the last operation sent, in order
    logs,       \* the log lines the last operation wrote, in order
    op,         \* the name of the last operation
    args        \* the arguments the last operation was called with

vars == <<evaluator, session, link, result, requests, logs, op, args>>

-----------------------------------------------------------------------------
(* Option and Result *)

None == <<>>
Some(x) == <<x>>
IsSome(o) == o # <<>>
Unwrap(o) == o[1]

Ok(v) == [ok |-> TRUE, val |-> v]
Err(kind, message) == [ok |-> FALSE, kind |-> kind, message |-> message]
IsOk(r) == r.ok
IsErr(r) == ~r.ok

\* a value bound to a name: Let(v, LAMBDA x : e) is e with x standing for v
Let(v, F(_)) == F(v)
Let2(v, w, F(_, _)) == F(v, w)
Let3(v, w, x, F(_, _, _)) == F(v, w, x)
\* the ? operator: the error r as it is, or F of the value of r
Try(r, F(_)) == IF r.ok THEN F(r.val) ELSE r
\* map_err: the error e in place of the error r, or F of the value of r
TryElse(r, e, F(_)) == IF r.ok THEN F(r.val) ELSE e

-----------------------------------------------------------------------------
(* String primitives (std::str) on sequences of characters *)

Max(a, b) == IF a >= b THEN a ELSE b
Min(a, b) == IF a <= b THEN a ELSE b

\* s[from..] and s[..to] with the empty result when the range is empty
Slice(s, from, to) == IF from > to THEN <<>> ELSE SubSeq(s, from, to)
DropFirst(s, n) == Slice(s, n + 1, Len(s))
TakeFirst(s, n) == Slice(s, 1, Min(n, Len(s)))

\* str::starts_with / str::ends_with
StartsWith(s, p) == Len(p) <= Len(s) /\ Slice(s, 1, Len(p)) = p
EndsWith(s, p) == Len(p) <= Len(s) /\ Slice(s, Len(s) - Len(p) + 1, Len(s)) = p

\* the positions at which p occurs in s
Occurrences(s, p) ==
    {i \in 1..(Len(s) + 1) : i + Len(p) - 1 <= Len(s) /\ Slice(s, i, i + Len(p) - 1) = p}

SetMin(S) == CHOOSE x \in S : \A y \in S : x <= y
SetMax(S) == CHOOSE x \in S : \A y \in S : x >= y

\* str::find / str::rfind: the first / last position of p, 0 when absent
MinOrZero(S) == IF S = {} THEN 0 ELSE SetMin(S)
MaxOrZero(S) == IF S = {} THEN 0 ELSE SetMax(S)
Find(s, p) == MinOrZero(Occurrences(s, p))
RFind(s, p) == MaxOrZero(Occurrences(s, p))
\* str::contains
Contains(s, p) == Occurrences(s, p) # {}

\* the first position >= from of character c in s, 0 when absent
FindFrom(s, c, from) == MinOrZero({i \in from..Len(s) : s[i] = c})

\* str::to_lowercase on the ASCII letters the model uses
Upper == <<"A","B","C","D","E","F","G","H","I","J","K","L","M","N","O","P","Q","R","S","T","U","V","W","X","Y","Z">>
Lower == <<"a","b","c","d","e","f","g","h","i","j","k","l","m","n","o","p","q","r","s","t","u","v","w","x","y","z">>
LowerChar(c) ==
    IF \E i \in 1..Len(Upper) : Upper[i] = c
    THEN Lower[CHOOSE i \in 1..Len(Upper) : Upper[i] = c]
    ELSE c
ToLower(s) == [i \in 1..Len(s) |-> LowerChar(s[i])]

Digits == <<"0","1","2","3","4","5","6","7","8","9">>
IsDigit(c) == \E i \in 1..Len(Digits) : Digits[i] = c
DigitVal(c) == (CHOOSE i \in 1..Len(Digits) : Digits[i] = c) - 1
IsLetter(c) == \E i \in 1..Len(Lower) : Lower[i] = c \/ Upper[i] = c
AllDigits(s) == \A i \in 1..Len(s) : IsDigit(s[i])

\* the value of a decimal numeral
RECURSIVE ToNat(_)
ToNat(s) == IF s = <<>> THEN 0 ELSE 10 * ToNat(Slice(s, 1, Len(s) - 1)) + DigitVal(s[Len(s)])

\* the decimal numeral of a number ({} of format!)
RECURSIVE NatToStr(_)
NatToStr(n) ==
    IF n < 10 THEN <<Digits[n + 1]>> ELSE NatToStr(n \div 10) \o <<Digits[(n % 10) + 1]>>

\* str::split on one character
RECURSIVE Split(_, _)
Split(s, c) ==
    Let(FindFrom(s, c, 1), LAMBDA i :
        IF i = 0 THEN <<s>> ELSE <<Slice(s, 1, i - 1)>> \o Split(DropFirst(s, i), c))

\* [String]::join
RECURSIVE Join(_, _)
Join(parts, sep) ==
    IF parts = <<>> THEN <<>>
    ELSE IF Len(parts) = 1 THEN parts[1]
    ELSE parts[1] \o sep \o Join(Tail(parts), sep)

\* the elements of a sequence
Range(s) == {s[i] : i \in 1..Len(s)}

\* the sequences over S of length lo..hi
SeqsBetween(S, lo, hi) == UNION {[1..n -> S] : n \in lo..hi}

-----------------------------------------------------------------------------
(* Error kinds (error.rs:10-18) *)

ErrorKinds ==
    {"UrlError", "UnpackError", "HashError", "IOError", "CollectError",
     "ValueError", "LinkMismatchError"}

\* a call that does not return: an unwrap() on Err or None
Panic == [ok |-> FALSE, kind |-> "panic", message |-> <<>>]
IsPanic(r) == ~r.ok /\ r.kind = "panic"

\* From<io::Error> and From<reqwest::Error> (error.rs:40-56)
FromIoError(text) == Err("IOError", text)
FromReqwestError(text) == Err("CollectError", text)

-----------------------------------------------------------------------------
(* url::Url, as far as Link uses it: Url::parse, the accessors, the setters *)
(* of the userinfo and the serialization.                                   *)

SpecialSchemes == {<<"h","t","t","p">>, <<"h","t","t","p","s">>, <<"w","s">>, <<"w","s","s">>, <<"f","t","p">>, <<"f","i","l","e">>}

DefaultPort(scheme) ==
    IF scheme \in {<<"h","t","t","p">>, <<"w","s">>} THEN 80
    ELSE IF scheme \in {<<"h","t","t","p","s">>, <<"w","s","s">>} THEN 443
    ELSE IF scheme = <<"f","t","p">> THEN 21
    ELSE 0

\* characters a host may not hold
ForbiddenHostChars == {" ", "#", "/", ":", "<", ">", "?", "@", "[", "\\", "]", "^", "|"}

\* an IPv6 address in brackets, of addresses written in their shortest form:
\* hexadecimal groups and two to seven ':'
HexDigits == {"0", "1", "2", "3", "4", "5", "6", "7", "8", "9",
              "a", "b", "c", "d", "e", "f"}

IsIpv6Literal(host) ==
    /\ Len(host) >= 4
    /\ host[1] = "[" /\ host[Len(host)] = "]"
    /\ \A i \in 2..(Len(host) - 1) : ToLower(<<host[i]>>)[1] \in HexDigits \cup {":"}
    /\ Cardinality({i \in 2..(Len(host) - 1) : host[i] = ":"}) \in 2..7

\* a host the parser refuses
HostInvalid(host) ==
    IF StartsWith(host, <<"[">>) THEN ~IsIpv6Literal(host)
    ELSE \E i \in 1..Len(host) : host[i] \in ForbiddenHostChars

\* the ':' that starts the port: the first ':' of the hostport, after the
\* closing bracket when the host is in brackets; 0 without one
PortColon(hostport) ==
    IF StartsWith(hostport, <<"[">>)
    THEN Let(Find(hostport, <<"]">>), LAMBDA rb :
             IF rb # 0 /\ rb < Len(hostport) /\ hostport[rb + 1] = ":" THEN rb + 1 ELSE 0)
    ELSE Find(hostport, <<":">>)

ValidSchemeChars(s) ==
    /\ s # <<>>
    /\ IsLetter(s[1])
    /\ \A i \in 1..Len(s) : IsLetter(s[i]) \/ IsDigit(s[i]) \/ s[i] \in {"+", "-", "."}

UrlParseError == [ok |-> FALSE, kind |-> "ParseError", message |-> <<>>]

\* the leading '/' of s removed, all of them
RECURSIVE StripSlashes(_)
StripSlashes(s) == IF s # <<>> /\ s[1] = "/" THEN StripSlashes(Tail(s)) ELSE s

\* the Url of a scheme, a userinfo (at: whether the authority holds '@'),
\* a host and a port (colon: whether the authority holds a ':' after the
\* userinfo), a path and a fragment
AuthorityUrl(scheme, at, colon, username, password, host, portstr, path, fragment) ==
    IF scheme = <<"f","i","l","e">> /\ (at \/ colon) THEN UrlParseError        \* invalid file host
    ELSE IF HostInvalid(host) THEN UrlParseError
    ELSE IF host = <<>> /\ (at \/ colon) THEN UrlParseError  \* credentials or port, no host
    ELSE IF host = <<>> /\ scheme \in SpecialSchemes /\ scheme # <<"f","i","l","e">>
    THEN UrlParseError                                       \* EmptyHost
    ELSE IF ~AllDigits(portstr) \/ Len(portstr) > 5 THEN UrlParseError  \* InvalidPort
    ELSE Let(ToNat(portstr), LAMBDA port :
         IF port > 65535 THEN UrlParseError
         ELSE Ok([scheme    |-> scheme,
                  username  |-> username,
                  password  |-> password,
                  host      |-> IF host = <<>> THEN None
                                ELSE Some(IF scheme \in SpecialSchemes
                                          THEN ToLower(host) ELSE host),
                  port      |-> IF portstr = <<>> \/ port = DefaultPort(scheme)
                                THEN None ELSE Some(portstr),
                  path      |-> IF path = <<>> /\ scheme \in SpecialSchemes
                                THEN <<"/">> ELSE path,
                  fragment  |-> fragment,
                  authority |-> TRUE]))

\* the authority split at its last '@' into userinfo and hostport
SplitAuthority(scheme, at, userinfo, hostport, path, fragment) ==
    Let2(Find(userinfo, <<":">>), PortColon(hostport), LAMBDA uc, pc :
         AuthorityUrl(scheme, at, pc # 0,
                      IF ~at THEN <<>>
                      ELSE IF uc = 0 THEN userinfo ELSE Slice(userinfo, 1, uc - 1),
                      IF ~at \/ uc = 0 \/ uc = Len(userinfo) THEN None
                      ELSE Some(DropFirst(userinfo, uc)),
                      IF pc = 0 THEN hostport ELSE Slice(hostport, 1, pc - 1),
                      IF pc = 0 THEN <<>> ELSE DropFirst(hostport, pc),
                      path, fragment))

\* the authority part "userinfo@host:port" of a URL
ParseAuthority(scheme, authority, path, fragment) ==
    Let(RFind(authority, <<"@">>), LAMBDA at :
        SplitAuthority(scheme, at # 0, Slice(authority, 1, at - 1),
                       DropFirst(authority, at), path, fragment))

\* what follows "scheme:" without its fragment
ParseBody(scheme, body, fragment) ==
    IF StartsWith(body, <<"/","/">>) \/ (scheme \in SpecialSchemes /\ scheme # <<"f","i","l","e">>)
    THEN Let(IF scheme \in SpecialSchemes /\ scheme # <<"f","i","l","e">>
             THEN StripSlashes(body) ELSE DropFirst(body, 2), LAMBDA ab :
         Let(Find(ab, <<"/">>), LAMBDA sl :
             ParseAuthority(scheme,
                            IF sl = 0 THEN ab ELSE Slice(ab, 1, sl - 1),
                            IF sl = 0 THEN <<>> ELSE DropFirst(ab, sl - 1),
                            fragment)))
    ELSE Ok([scheme    |-> scheme,
             username  |-> <<>>,
             password  |-> None,
             host      |-> None,
             port      |-> None,
             path      |-> body,
             fragment  |-> fragment,
             authority |-> scheme = <<"f","i","l","e">>])

\* what follows "scheme:"
ParseRest(scheme, rest) ==
    Let(Find(rest, <<"#">>), LAMBDA h :
        ParseBody(scheme,
                  IF h = 0 THEN rest ELSE Slice(rest, 1, h - 1),
                  IF h = 0 THEN None ELSE Some(DropFirst(rest, h))))

\* Url::parse
UrlParse(s) ==
    Let(Find(s, <<":">>), LAMBDA c :
        IF c <= 1 \/ ~ValidSchemeChars(Slice(s, 1, c - 1)) THEN UrlParseError
        ELSE ParseRest(ToLower(Slice(s, 1, c - 1)), DropFirst(s, c)))

\* Url::has_authority, Url::has_host
HasAuthority(u) == u.authority
HasHost(u) == IsSome(u.host)

\* the serialization of a Url (Url::as_str, Display for Url)
UrlToString(u) ==
    u.scheme \o <<":">>
    \o (IF u.authority
        THEN <<"/","/">>
             \o (IF u.username # <<>> \/ IsSome(u.password)
                 THEN u.username
                      \o (IF IsSome(u.password) THEN <<":">> \o Unwrap(u.password) ELSE <<>>)
                      \o <<"@">>
                 ELSE <<>>)
             \o (IF IsSome(u.host) THEN Unwrap(u.host) ELSE <<>>)
             \o (IF IsSome(u.port) THEN <<":">> \o Unwrap(u.port) ELSE <<>>)
        ELSE <<>>)
    \o u.path
    \o (IF IsSome(u.fragment) THEN <<"#">> \o Unwrap(u.fragment) ELSE <<>>)

\* Url::set_username and Url::set_password refuse a URL that cannot carry
\* userinfo: one without a host, and a file URL
CannotHaveUserinfo(u) == ~HasHost(u) \/ u.scheme = <<"f","i","l","e">>

SetUsername(u, name) ==
    IF CannotHaveUserinfo(u) THEN Err("()", <<>>) ELSE Ok([u EXCEPT !.username = name])

SetPassword(u, password) ==
    IF CannotHaveUserinfo(u) THEN Err("()", <<>>) ELSE Ok([u EXCEPT !.password = password])

\* Url::set_fragment(None)
SetFragmentNone(u) == [u EXCEPT !.fragment = None]

\* url::form_urlencoded::parse: the (key, value) pairs of "k1=v1&k2=v2",
\* a '+' decoded to a space
PlusToSpace(s) == [i \in 1..Len(s) |-> IF s[i] = "+" THEN " " ELSE s[i]]

FormPair(piece) ==
    Let(Find(piece, <<"=">>), LAMBDA e :
        IF e = 0 THEN <<PlusToSpace(piece), <<>>>>
        ELSE <<PlusToSpace(Slice(piece, 1, e - 1)), PlusToSpace(DropFirst(piece, e))>>)

FormUrlencodedParse(s) ==
    Let(SelectSeq(Split(s, "&"), LAMBDA p : p # <<>>), LAMBDA pieces :
        [i \in 1..Len(pieces) |-> FormPair(pieces[i])])

-----------------------------------------------------------------------------
(* Link (link.rs) *)

VCS_SCHEMES == <<<<"g","i","t">>, <<"h","g">>, <<"s","v","n">>, <<"b","z","r">>>>
SUPPORTED_HASHES == {<<"s","h","a","1">>, <<"s","h","a","2","2","4">>, <<"s","h","a","3","8","4">>, <<"s","h","a","2","5","6">>, <<"s","h","a","5","1","2">>, <<"m","d","5">>}

\* SSH_GIT_URL = (^.+?://(?:.+?@)?.+?)(:)(.+$), matched leftmost-first: the
\* position in s of the ':' that group 2 captures, 0 when s does not match.
\* rest is what follows a "://" of s.
SshColonAfter(rest, from) == MinOrZero({q \in from..(Len(rest) - 1) : rest[q] = ":"})

SshColonInRest(rest) ==
    Let({a \in 2..Len(rest) : rest[a] = "@" /\ SshColonAfter(rest, a + 2) # 0}, LAMBDA ats :
        IF ats # {} THEN SshColonAfter(rest, SetMin(ats) + 2)
        ELSE SshColonAfter(rest, 2))

SshGitUrlColon(s) ==
    Let(MinOrZero({p \in Occurrences(s, <<":","/","/">>) :
                      p >= 2 /\ SshColonInRest(DropFirst(s, p + 2)) # 0}), LAMBDA sep :
        IF sep = 0 THEN 0 ELSE sep + 2 + SshColonInRest(DropFirst(s, sep + 2)))

\* SSH_GIT_URL.replace(s, "$1/$3")
SshGitUrlReplace(s) ==
    Let(SshGitUrlColon(s), LAMBDA q :
        IF q = 0 THEN s ELSE Slice(s, 1, q - 1) \o <<"/">> \o DropFirst(s, q))

\* add_ssh_scheme_to_git_uri that rewrites the ':' of a URI with a scheme too
add_ssh_scheme_always_rewriting(uri) ==
    IF Contains(uri, <<":","/","/">>) THEN SshGitUrlReplace(uri)
    ELSE SshGitUrlReplace(<<"s","s","h",":","/","/">> \o uri)

add_ssh_scheme_to_git_uri(uri) ==
    IF Contains(uri, <<":","/","/">>) THEN uri
    ELSE SshGitUrlReplace(<<"s","s","h",":","/","/">> \o uri)

HasVcsPrefix(url) ==
    \E i \in 1..Len(VCS_SCHEMES) : StartsWith(url, VCS_SCHEMES[i] \o <<"+">>)

\* the (normalized, vcs) pair of Link::new
NormalizeUrl(url) ==
    IF HasVcsPrefix(url)
    THEN Let(Find(url, <<"+">>), LAMBDA plus :    \* split_once('+')
             [normalized |-> add_ssh_scheme_to_git_uri(DropFirst(url, plus)),
              vcs        |-> Some(Slice(url, 1, plus - 1))])
    ELSE [normalized |-> url, vcs |-> None]

LinkNew(url, comes_from, yank_reason, requires_python, hashes, dist_metadata) ==
    Let(NormalizeUrl(url), LAMBDA n :
        TryElse(UrlParse(n.normalized),
                Err("UrlError", <<"I","n","v","a","l","i","d"," ","U","R","L",":"," ">> \o n.normalized), LAMBDA parsed :
                Ok([url             |-> url,
                    normalized      |-> n.normalized,
                    parsed          |-> parsed,
                    vcs             |-> n.vcs,
                    comes_from      |-> comes_from,
                    yank_reason     |-> yank_reason,
                    requires_python |-> requires_python,
                    hashes_map      |-> hashes,
                    dist_metadata   |-> dist_metadata])))

\* FromStr for Link
LinkFromStr(s) == LinkNew(s, None, None, None, None, None)

\* Link::from_path: Url::from_file_path takes an absolute path
from_path(path) ==
    IF ~StartsWith(path, <<"/">>)
    THEN Err("ValueError",
             <<"I","n","v","a","l","i","d"," ","f","i","l","e"," ","p","a","t","h",","," ","m","u","s","t"," ","b","e"," ","a","b","s","o","l","u","t","e"," ","a","n","d"," ","c","o","n","t","a","i","n"," ","n","o"," ","N","U","L"," ","b","y","t","e","s">>)
    ELSE Let(UrlParse(<<"f","i","l","e",":","/","/">> \o path).val, LAMBDA url :
             Ok([url             |-> UrlToString(url),
                 normalized      |-> UrlToString(url),
                 parsed          |-> url,
                 vcs             |-> None,
                 comes_from      |-> None,
                 yank_reason     |-> None,
                 requires_python |-> None,
                 hashes_map      |-> None,
                 dist_metadata   |-> None]))

is_file(l) == l.parsed.scheme = <<"f","i","l","e">>

\* Path::file_name of the URL's path: its last component, trailing '/' ignored
RECURSIVE StripTrailingSlashes(_)
StripTrailingSlashes(s) ==
    IF s # <<>> /\ s[Len(s)] = "/" THEN StripTrailingSlashes(Slice(s, 1, Len(s) - 1)) ELSE s

filename(l) ==
    Let(StripTrailingSlashes(l.parsed.path), LAMBDA p :
        Let(DropFirst(p, RFind(p, <<"/">>)), LAMBDA last :
            IF last = <<".",".">> THEN <<>> ELSE last))

url_without_fragment(l) == UrlToString(SetFragmentNone(l.parsed))

is_wheel(l) == EndsWith(filename(l), <<".","w","h","l">>)

\* a HashMap<String, String> is a function from its keys; collecting pairs
\* keeps the last value of a repeated key
PairsToMap(pairs) ==
    [k \in {pairs[i][1] : i \in 1..Len(pairs)} |->
        pairs[SetMax({i \in 1..Len(pairs) : pairs[i][1] = k})][2]]

EmptyMap == PairsToMap(<<>>)
MapInsert(m, k, v) == [x \in DOMAIN m \cup {k} |-> IF x = k THEN v ELSE m[x]]

\* Link::hashes that takes an empty hashes_map for none
hashes_skipping_empty_map(l) ==
    IF IsSome(l.hashes_map) /\ DOMAIN Unwrap(l.hashes_map) # {} THEN Some(Unwrap(l.hashes_map))
    ELSE IF ~IsSome(l.parsed.fragment) THEN None
    ELSE Let(SelectSeq(FormUrlencodedParse(Unwrap(l.parsed.fragment)),
                       LAMBDA kv : kv[1] \in SUPPORTED_HASHES), LAMBDA found :
             IF found = <<>> THEN None ELSE Some(PairsToMap(found)))

\* Link::hashes
hashes(l) ==
    IF IsSome(l.hashes_map) THEN Some(Unwrap(l.hashes_map))
    ELSE IF ~IsSome(l.parsed.fragment) THEN None
    ELSE Let(SelectSeq(FormUrlencodedParse(Unwrap(l.parsed.fragment)),
                       LAMBDA kv : kv[1] \in SUPPORTED_HASHES), LAMBDA found :
             IF found = <<>> THEN None ELSE Some(PairsToMap(found)))

\* Link::egg
egg(l) ==
    IF ~IsSome(l.parsed.fragment) THEN None
    ELSE Let(SelectSeq(FormUrlencodedParse(Unwrap(l.parsed.fragment)),
                       LAMBDA kv : kv[1] = <<"e","g","g">>), LAMBDA found :
             IF found = <<>> THEN None ELSE Some(found[1][2]))

\* PartialEq for Link that compares the url as given too
LinkEq_by_url(a, b) ==
    /\ a.url = b.url
    /\ a.normalized = b.normalized
    /\ a.requires_python = b.requires_python
    /\ a.yank_reason = b.yank_reason

\* impl PartialEq for Link
LinkEq(a, b) ==
    /\ a.normalized = b.normalized
    /\ a.requires_python = b.requires_python
    /\ a.yank_reason = b.yank_reason

\* impl Hash for Link: what is fed to the hasher, in order
LinkHash(l) == <<l.normalized, l.requires_python, l.yank_reason>>

\* impl fmt::Display for Link
Display(l) == l.normalized

\* redacted that replaces the user name and keeps the password
redacted_keeping_password(l) ==
    IF ~HasAuthority(l.parsed) THEN Ok(l.normalized)
    ELSE TryElse(SetUsername(l.parsed, <<"*","*","*">>), Panic, LAMBDA named :
                 Ok(UrlToString(named)))

\* Link::redacted
redacted(l) ==
    IF ~HasAuthority(l.parsed) THEN Ok(l.normalized)
    ELSE TryElse(SetUsername(l.parsed, <<"*","*","*">>), Panic, LAMBDA named :
                 TryElse(SetPassword(named, None), Panic, LAMBDA bare :
                         Ok(UrlToString(bare))))

\* Link::__repr__
Repr(l) ==
    TryElse(redacted(l), Panic, LAMBDA r :
            Ok(<<"<","L","i","n","k"," ">> \o r \o <<" ","(","f","r","o","m"," ">>
               \o (IF IsSome(l.comes_from) THEN Unwrap(l.comes_from) ELSE <<>>) \o <<")",">">>))

-----------------------------------------------------------------------------
(* pep440_rs, as far as the evaluator uses it: Version::from_str,           *)
(* VersionSpecifiers::from_str and VersionSpecifiers::contains.  A Version  *)
(* is its release numbers and its pre-release or dev marker, if any.        *)

VersionParseError == [ok |-> FALSE, kind |-> "ParseError", message |-> <<>>]

PreMarkers == {<<"a">>, <<"b">>, <<"r","c">>, <<"d","e","v">>, <<".","d","e","v">>}

\* the first position of s that holds neither a digit nor a '.', 0 when none
FirstNonRelease(s) == MinOrZero({i \in 1..Len(s) : ~IsDigit(s[i]) /\ s[i] # "."})

\* the release numbers of "1.2.3"
ParseRelease(s) ==
    Let(Split(s, "."), LAMBDA parts :
        IF s = <<>> \/ \E i \in 1..Len(parts) : parts[i] = <<>> \/ ~AllDigits(parts[i])
        THEN VersionParseError
        ELSE Ok([i \in 1..Len(parts) |-> ToNat(parts[i])]))

\* the marker and the number of a suffix
PreOf(marker, number) ==
    IF marker \in PreMarkers /\ AllDigits(number)
    THEN Ok(<<IF marker = <<".","d","e","v">> THEN <<"d","e","v">> ELSE marker, ToNat(number)>>)
    ELSE VersionParseError

\* the marker of a suffix such as "a1", "rc2", ".dev3"
ParsePre(s) ==
    Let(MinOrZero({i \in 1..Len(s) : IsDigit(s[i])}), LAMBDA d :
        Let(IF d = 0 THEN Len(s) + 1 ELSE d, LAMBDA cut :
            PreOf(Slice(s, 1, cut - 1), DropFirst(s, cut - 1))))

\* the version of a release "1.2" and a suffix "rc1", either may be empty
VersionOf(release, suffix) ==
    TryElse(ParseRelease(release), VersionParseError, LAMBDA rel :
        IF suffix = <<>> THEN Ok([release |-> rel, pre |-> None])
        ELSE TryElse(ParsePre(suffix), VersionParseError, LAMBDA pre :
                 Ok([release |-> rel, pre |-> Some(pre)])))

\* s cut where its release numbers end; ".dev" belongs to the suffix
SplitVersion(s) ==
    Let(FirstNonRelease(s), LAMBDA n :
        Let(IF n = 0 THEN Len(s) + 1
            ELSE IF n > 1 /\ s[n - 1] = "." THEN n - 1 ELSE n, LAMBDA cut :
            VersionOf(Slice(s, 1, cut - 1), DropFirst(s, cut - 1))))

\* Version::from_str
VersionFromStr(text) ==
    Let(ToLower(text), LAMBDA s :
        SplitVersion(IF StartsWith(s, <<"v">>) THEN Tail(s) ELSE s))

\* Version::any_prerelease
any_prerelease(v) == IsSome(v.pre)

\* the i-th release number, 0 past the end: 1.0 and 1.0.0 compare equal
ReleaseAt(v, i) == IF i <= Len(v.release) THEN v.release[i] ELSE 0

\* the order of two numbers: -1, 0 or 1
Order(m, n) == IF m < n THEN -1 ELSE IF m > n THEN 1 ELSE 0

\* the order of two release tuples: -1, 0 or 1
ReleaseCompare(a, b) ==
    Let(MinOrZero({i \in 1..Max(Len(a.release), Len(b.release)) :
                      ReleaseAt(a, i) # ReleaseAt(b, i)}), LAMBDA at :
        IF at = 0 THEN 0 ELSE Order(ReleaseAt(a, at), ReleaseAt(b, at)))

\* a pre-release sorts before its release; dev < a < b < rc
PreRank(v) ==
    IF ~IsSome(v.pre) THEN 4
    ELSE IF Unwrap(v.pre)[1] = <<"d","e","v">> THEN 0
    ELSE IF Unwrap(v.pre)[1] = <<"a">> THEN 1
    ELSE IF Unwrap(v.pre)[1] = <<"b">> THEN 2
    ELSE 3

PreNumber(v) == IF IsSome(v.pre) THEN Unwrap(v.pre)[2] ELSE 0

\* the first of three orders that is not 0
FirstOrder(x, y, z) == IF x # 0 THEN x ELSE IF y # 0 THEN y ELSE z

VersionCompare(a, b) ==
    FirstOrder(ReleaseCompare(a, b), Order(PreRank(a), PreRank(b)),
               Order(PreNumber(a), PreNumber(b)))

Operators == <<<<"=","=","=">>, <<"~","=">>, <<"=","=">>, <<"!","=">>, <<"<","=">>, <<">","=">>, <<"<">>, <<">">>>>

\* str::trim on spaces
RECURSIVE Trim(_)
Trim(s) ==
    IF s # <<>> /\ s[1] = " " THEN Trim(Tail(s))
    ELSE IF s # <<>> /\ s[Len(s)] = " " THEN Trim(Slice(s, 1, Len(s) - 1))
    ELSE s

\* the clause of an operator and the text of its version
SpecifierOf(o, text) ==
    TryElse(VersionFromStr(text), VersionParseError, LAMBDA v :
        IF o = <<"~","=">> /\ Len(v.release) < 2 THEN VersionParseError
        ELSE Ok([operator |-> o, version |-> v]))

\* the first operator s starts with, and what follows it
SplitSpecifier(s) ==
    Let(MinOrZero({i \in 1..Len(Operators) : StartsWith(s, Operators[i])}), LAMBDA at :
        IF at = 0 THEN VersionParseError
        ELSE SpecifierOf(Operators[at], Trim(DropFirst(s, Len(Operators[at])))))

\* one clause "<operator><version>" of a specifier set
ParseSpecifier(text) == SplitSpecifier(Trim(text))

\* VersionSpecifiers::from_str: the clauses between ','
VersionSpecifiersFromStr(text) ==
    Let(IF Trim(text) = <<>> THEN <<>>
        ELSE [i \in 1..Len(Split(text, ",")) |-> ParseSpecifier(Split(text, ",")[i])],
        LAMBDA clauses :
        IF \E i \in 1..Len(clauses) : ~clauses[i].ok THEN VersionParseError
        ELSE Ok([i \in 1..Len(clauses) |-> clauses[i].val]))

\* the version "~= V.N" is compatible up to: V with its last number dropped
CompatiblePrefix(v) == [release |-> Slice(v.release, 1, Len(v.release) - 1), pre |-> None]
SamePrefix(v, p) == \A i \in 1..Len(p.release) : ReleaseAt(v, i) = p.release[i]

\* VersionSpecifier::contains
SpecifierContains(c, v) ==
    Let(VersionCompare(v, c.version), LAMBDA cmp :
        IF c.operator \in {<<"=","=">>, <<"=","=","=">>} THEN cmp = 0
        ELSE IF c.operator = <<"!","=">> THEN cmp # 0
        ELSE IF c.operator = <<"<","=">> THEN cmp <= 0
        ELSE IF c.operator = <<">","=">> THEN cmp >= 0
        ELSE IF c.operator = <<"<">> THEN cmp < 0
        ELSE IF c.operator = <<">">> THEN cmp > 0
        ELSE cmp >= 0 /\ SamePrefix(v, CompatiblePrefix(c.version)))

\* VersionSpecifiers::contains: every clause admits the version
SpecifiersContain(specs, v) == \A i \in 1..Len(specs) : SpecifierContains(specs[i], v)

-----------------------------------------------------------------------------
(* Hasher (hash.rs).  A body is the sequence of the chunks read from the    *)
(* response; the digest of an algorithm is an injective function of the     *)
(* data fed to it, written as the algorithm's mark followed by the data.    *)

HasherAlgos == {<<"m","d","5">>, <<"s","h","a","1">>, <<"s","h","a","2","2","4">>, <<"s","h","a","2","5","6">>, <<"s","h","a","3","8","4">>, <<"s","h","a","5","1","2">>}

HasherMark(algo) ==
    IF algo = <<"m","d","5">> THEN "m"
    ELSE IF algo = <<"s","h","a","1">> THEN "s"
    ELSE IF algo = <<"s","h","a","2","2","4">> THEN "t"
    ELSE IF algo = <<"s","h","a","2","5","6">> THEN "a"
    ELSE IF algo = <<"s","h","a","3","8","4">> THEN "e"
    ELSE "f"

\* Hasher::new: None for an algorithm that is not one of the six
HasherNew(algo) ==
    IF algo \in HasherAlgos THEN Some([algo |-> algo, data |-> <<>>]) ELSE None

\* Hasher::update
HasherUpdate(h, chunk) == [h EXCEPT !.data = @ \o chunk]

\* Hasher::hexdigest
HasherHexdigest(h) == <<HasherMark(h.algo)>> \o h.data

\* the read loop of get_hash: every chunk of the body goes through update
RECURSIVE HashChunks(_, _)
HashChunks(h, chunks) ==
    IF chunks = <<>> THEN h ELSE HashChunks(HasherUpdate(h, chunks[1]), Tail(chunks))

-----------------------------------------------------------------------------
(* The archive extensions (source.rs:16-27) *)

ARCHIVE_EXTENSIONS ==
    {<<".","z","i","p">>, <<".","w","h","l">>, <<".","t","a","r",".","b","z","2">>, <<".","t","b","z">>, <<".","t","a","r",".","x","z">>, <<".","t","x","z">>, <<".","t","l","z">>,
     <<".","t","a","r",".","l","z">>, <<".","t","a","r",".","l","z","m","a">>, <<".","t","a","r",".","g","z">>}

-----------------------------------------------------------------------------
(* pep_427::WheelName and TargetPython *)

\* the tags of a compressed tag set "py2.py3-none-any"
WheelTags(interpreters, abis, platforms) ==
    {<<i, a, p>> : i \in Range(Split(interpreters, ".")), a \in Range(Split(abis, ".")),
                   p \in Range(Split(platforms, "."))}

\* the wheel name of the parts between '-'
WheelNameOf(parts) ==
    IF Len(parts) \notin {5, 6} \/ (\E i \in 1..Len(parts) : parts[i] = <<>>)
    THEN Err("WheelNameError", <<"i","n","v","a","l","i","d"," ","w","h","e","e","l"," ","n","a","m","e">>)
    ELSE TryElse(VersionFromStr(parts[2]),
                 Err("WheelNameError", <<"i","n","v","a","l","i","d"," ","w","h","e","e","l"," ","n","a","m","e">>), LAMBDA v :
             Ok([distribution |-> parts[1],
                 version      |-> v,
                 tags         |-> WheelTags(parts[Len(parts) - 2], parts[Len(parts) - 1],
                                            parts[Len(parts)])]))

\* WheelName::from_str:
\* {distribution}-{version}(-{build})?-{interpreter}-{abi}-{platform}.whl
WheelNameFromStr(name) ==
    IF ~EndsWith(name, <<".","w","h","l">>) THEN Err("WheelNameError", <<"i","n","v","a","l","i","d"," ","w","h","e","e","l"," ","n","a","m","e">>)
    ELSE WheelNameOf(Split(Slice(name, 1, Len(name) - 4), "-"))

\* TargetPython::is_compatible: some tag of the wheel is a supported tag
is_compatible(target, wheel_name) ==
    \E i \in 1..Len(target.supported_tags) : target.supported_tags[i] \in wheel_name.tags

\* From<PythonVersion> for Version
PyVerToVersion(py_ver) == [release |-> py_ver, pre |-> None]

-----------------------------------------------------------------------------
(* FormatControl and Evaluator (evaluator.rs) *)

LinkMismatch(message) == Err("LinkMismatchError", message)

\* FormatControl::new (the message without the quoting of the two names)
FormatControlNew(only_binary, no_binary) ==
    IF only_binary /\ no_binary
    THEN Err("ValueError", <<"C","a","n","n","o","t"," ","s","e","t"," ","b","o","t","h"," ","o","n","l","y","_","b","i","n","a","r","y"," ","a","n","d"," ","n","o","_","b","i","n","a","r","y">>)
    ELSE Ok([only_binary |-> only_binary, no_binary |-> no_binary])

\* check_format without the no_binary test
check_format_only_binary_only(fc, l, name) ==
    IF fc.only_binary /\ ~is_wheel(l)
    THEN LinkMismatch(<<"O","n","l","y"," ","b","i","n","a","r","i","e","s"," ","a","r","e"," ","a","l","l","o","w","e","d"," ","f","o","r"," ">> \o name)
    ELSE Ok(<<>>)

check_format(fc, l, name) ==
    IF fc.only_binary /\ ~is_wheel(l)
    THEN LinkMismatch(<<"O","n","l","y"," ","b","i","n","a","r","i","e","s"," ","a","r","e"," ","a","l","l","o","w","e","d"," ","f","o","r"," ">> \o name)
    ELSE IF fc.no_binary /\ is_wheel(l)
    THEN LinkMismatch(<<"B","i","n","a","r","i","e","s"," ","a","r","e"," ","n","o","t"," ","a","l","l","o","w","e","d"," ","f","o","r"," ">> \o name)
    ELSE Ok(<<>>)

\* the regex [-_.]+ replaced by "-" in the lowercased name
RECURSIVE CollapseSeparators(_)
CollapseSeparators(s) ==
    IF s = <<>> THEN <<>>
    ELSE IF s[1] \in {"-", "_", "."}
    THEN IF Len(s) > 1 /\ s[2] \in {"-", "_", "."}
         THEN CollapseSeparators(Tail(s))
         ELSE <<"-">> \o CollapseSeparators(Tail(s))
    ELSE <<s[1]>> \o CollapseSeparators(Tail(s))

canonicalize_name(name) == CollapseSeparators(ToLower(name))

\* check_yanked without the allow_yanked test: a yanked Link always passes
check_yanked_lenient(ev, l) == Ok(<<>>)

check_yanked(ev, l) ==
    IF IsSome(l.yank_reason) /\ ~ev.allow_yanked
    THEN LinkMismatch(<<"Y","a","n","k","e","d"," ","d","u","e"," ","t","o"," ">> \o Unwrap(l.yank_reason))
    ELSE Ok(<<>>)

\* "3.9" of the release numbers <<3, 9>>
ReleaseToStr(release) ==
    Join([i \in 1..Len(release) |-> NatToStr(release[i])], <<".">>)

\* check_requires_python that checks even under ignore_compatibility
check_requires_python_always(ev, l) ==
    IF IsSome(l.requires_python)
    THEN Let(PyVerToVersion(ev.target_python.py_ver), LAMBDA py_ver :
         TryElse(VersionSpecifiersFromStr(Unwrap(l.requires_python)),
                 LinkMismatch(<<"I","n","v","a","l","i","d"," ","r","e","q","u","i","r","e","s","-","p","y","t","h","o","n"," ","s","p","e","c","i","f","i","e","r",":"," ">>
                              \o Unwrap(l.requires_python)), LAMBDA specs :
             IF ~SpecifiersContain(specs, py_ver)
             THEN LinkMismatch(<<"T","h","e"," ","t","a","r","g","e","t"," ","p","y","t","h","o","n"," ","v","e","r","s","i","o","n","(">>
                               \o ReleaseToStr(py_ver.release)
                               \o <<")"," ","d","o","e","s","n","'","t"," ","m","a","t","c","h"," ","t","h","e"," ","r","e","q","u","i","r","e","s","-","p","y","t","h","o","n"," ","s","p","e","c","i","f","i","e","r"," ">>
                               \o Unwrap(l.requires_python))
             ELSE Ok(<<>>)))
    ELSE Ok(<<>>)

check_requires_python(ev, l) ==
    IF IsSome(l.requires_python) /\ ~ev.ignore_compatibility
    THEN Let(PyVerToVersion(ev.target_python.py_ver), LAMBDA py_ver :
         TryElse(VersionSpecifiersFromStr(Unwrap(l.requires_python)),
                 LinkMismatch(<<"I","n","v","a","l","i","d"," ","r","e","q","u","i","r","e","s","-","p","y","t","h","o","n"," ","s","p","e","c","i","f","i","e","r",":"," ">>
                              \o Unwrap(l.requires_python)), LAMBDA specs :
             IF ~SpecifiersContain(specs, py_ver)
             THEN LinkMismatch(<<"T","h","e"," ","t","a","r","g","e","t"," ","p","y","t","h","o","n"," ","v","e","r","s","i","o","n","(">>
                               \o ReleaseToStr(py_ver.release)
                               \o <<")"," ","d","o","e","s","n","'","t"," ","m","a","t","c","h"," ","t","h","e"," ","r","e","q","u","i","r","e","s","-","p","y","t","h","o","n"," ","s","p","e","c","i","f","i","e","r"," ">>
                               \o Unwrap(l.requires_python))
             ELSE Ok(<<>>)))
    ELSE Ok(<<>>)

hash_mismatch(hash_name, expected, actual) ==
    LinkMismatch(<<"H","a","s","h"," ","m","i","s","m","a","t","c","h"," ","f","o","r"," ">> \o hash_name \o <<":"," ","e","x","p","e","c","t","e","d"," ">>
                 \o Join(expected, <<"/">>) \o <<","," ","a","c","t","u","a","l"," ">> \o actual)

\* Vec::contains
VecContains(v, x) == \E i \in 1..Len(v) : v[i] = x

\* splitext that always splits at the last '.'
splitext_at_last_dot(name) ==
    Let(RFind(name, <<".">>), LAMBDA pos :
        IF pos = 0 THEN <<name, <<>>>>
        ELSE <<Slice(name, 1, pos - 1), DropFirst(name, pos - 1)>>)

splitext(name) ==
    Let(RFind(name, <<".">>), LAMBDA pos :
        IF pos = 0 THEN <<name, <<>>>>
        ELSE IF EndsWith(Slice(name, 1, pos - 1), <<".","t","a","r">>)
        THEN <<Slice(name, 1, pos - 5), DropFirst(name, pos - 5)>>
        ELSE <<Slice(name, 1, pos - 1), DropFirst(name, pos - 1)>>)

\* parse_version_from_egg_info that takes the last such position
parse_version_from_egg_info_last(egg_info, canonical_name) ==
    Let(MaxOrZero({i \in 1..Len(egg_info) :
                      /\ canonicalize_name(Slice(egg_info, 1, i - 1)) = canonical_name
                      /\ egg_info[i] \in {"-", "_"}}), LAMBDA at :
        IF at = 0 THEN None ELSE Some(DropFirst(egg_info, at)))

\* the first position i whose prefix is the package name, canonically, and
\* that holds '-' or '_'; the version is what follows it
parse_version_from_egg_info(egg_info, canonical_name) ==
    Let(MinOrZero({i \in 1..Len(egg_info) :
                      /\ canonicalize_name(Slice(egg_info, 1, i - 1)) = canonical_name
                      /\ egg_info[i] \in {"-", "_"}}), LAMBDA at :
        IF at = 0 THEN None ELSE Some(DropFirst(egg_info, at)))

\* A call's outcome: what it returns, the requests it sent and the Link as
\* the call left it
Outcome(r, sent, l) == [result |-> r, requests |-> sent, link |-> l]

HttpGet(url) == <<"GET", url>>
HttpHead(url) == <<"HEAD", url>>

\* the digest of a body read to its end
DigestOf(hasher, body) == HasherHexdigest(HashChunks(hasher, body))

\* StoreHash that also clears the yank reason of the Link
StoreHash_clearing_yank(l, hash_name, digest) ==
    [l EXCEPT !.hashes_map =
        Some(MapInsert(IF IsSome(l.hashes_map) THEN Unwrap(l.hashes_map) ELSE EmptyMap,
                       hash_name, digest)),
              !.yank_reason = None]

\* HashMap::insert into the hashes of the Link, created when there are none
StoreHash(l, hash_name, digest) ==
    [l EXCEPT !.hashes_map =
        Some(MapInsert(IF IsSome(l.hashes_map) THEN Unwrap(l.hashes_map) ELSE EmptyMap,
                       hash_name, digest))]

\* get_hash that returns the digest without storing it in the Link
get_hash_unstored(ev, l, hash_name, http) ==
    Let2(<<HttpGet(l.normalized)>>, HasherNew(hash_name), LAMBDA sent, hasher :
        IF http.send = "error"
        THEN Outcome(FromReqwestError(<<"e","r","r","o","r"," ","s","e","n","d","i","n","g"," ","r","e","q","u","e","s","t">>), sent, l)
        ELSE IF ~IsSome(hasher)
        THEN Outcome(LinkMismatch(<<"U","n","s","u","p","p","o","r","t","e","d"," ","h","a","s","h"," ","a","l","g","o"," ">> \o hash_name), sent, l)
        ELSE IF http.read = "error"
        THEN Outcome(FromIoError(<<"r","e","a","d"," ","f","a","i","l","e","d">>), sent, l)
        ELSE Outcome(Ok(DigestOf(Unwrap(hasher), http.body)), sent, l))

\* get_hash.  http is what the session answers: whether send() fails, the
\* chunks of the body, whether a read fails.
get_hash(ev, l, hash_name, http) ==
    Let2(<<HttpGet(l.normalized)>>, HasherNew(hash_name), LAMBDA sent, hasher :
        IF http.send = "error"
        THEN Outcome(FromReqwestError(<<"e","r","r","o","r"," ","s","e","n","d","i","n","g"," ","r","e","q","u","e","s","t">>), sent, l)
        ELSE IF ~IsSome(hasher)
        THEN Outcome(LinkMismatch(<<"U","n","s","u","p","p","o","r","t","e","d"," ","h","a","s","h"," ","a","l","g","o"," ">> \o hash_name), sent, l)
        ELSE IF http.read = "error"
        THEN Outcome(FromIoError(<<"r","e","a","d"," ","f","a","i","l","e","d">>), sent, l)
        ELSE Let(DigestOf(Unwrap(hasher), http.body), LAMBDA digest :
                 Outcome(Ok(digest), sent, StoreHash(l, hash_name, digest))))

\* the end of check_hash (evaluator.rs:215-223): the digest of the body
\* under the first configured algorithm decides
check_downloaded(ev, l, hash_name, http) ==
    Let(get_hash(ev, l, hash_name, http), LAMBDA got :
        IF ~got.result.ok THEN got
        ELSE IF ~VecContains(ev.hashes[hash_name], got.result.val)
        THEN Outcome(hash_mismatch(hash_name, ev.hashes[hash_name], got.result.val),
                     got.requests, got.link)
        ELSE Outcome(Ok(<<>>), got.requests, got.link))

\* check_hash without the comparison of the digests the Link exposes: the
\* body is always downloaded and only its digest compared
check_hash_download_only(ev, l, order, http) ==
    IF Len(order) = 0 THEN Outcome(Ok(<<>>), <<>>, l)
    ELSE check_downloaded(ev, l, order[1], http)

\* check_hash.  order is the order in which the HashMap of configured
\* hashes iterates.
check_hash(ev, l, order, http) ==
    IF Len(order) = 0 THEN Outcome(Ok(<<>>), <<>>, l)
    ELSE Let(hashes(l), LAMBDA link_hashes :
         Let(MinOrZero({i \in 1..Len(order) :
                /\ IsSome(link_hashes)
                /\ order[i] \in DOMAIN Unwrap(link_hashes)
                /\ ~VecContains(ev.hashes[order[i]], Unwrap(link_hashes)[order[i]])}),
             LAMBDA bad :
             IF bad # 0
             THEN Outcome(hash_mismatch(order[bad], ev.hashes[order[bad]],
                                        Unwrap(link_hashes)[order[bad]]),
                          <<>>, l)
             ELSE check_downloaded(ev, l, order[1], http)))

\* the name and version of a wheel Link (evaluator.rs:81-102)
WheelVersion(ev, l, canonical_name) ==
    Let(WheelNameFromStr(filename(l)), LAMBDA wheel_name :
        IF ~wheel_name.ok THEN LinkMismatch(wheel_name.message)
        ELSE IF canonical_name # wheel_name.val.distribution
        THEN LinkMismatch(<<"T","h","e"," ","p","a","c","k","a","g","e"," ","n","a","m","e"," ">> \o ev.package_name
                          \o <<" ","d","o","e","s"," ","n","o","t"," ","m","a","t","c","h"," ","t","h","e"," ","n","a","m","e"," ">> \o wheel_name.val.distribution
                          \o <<" ","i","n"," ","t","h","e"," ","l","i","n","k">>)
        ELSE IF ~ev.ignore_compatibility
                /\ ~is_compatible(ev.target_python, wheel_name.val)
        THEN LinkMismatch(<<"T","h","e"," ","w","h","e","e","l"," ","t","a","g","s"," ","i","s"," ","n","o","t"," ","c","o","m","p","a","t","i","b","l","e"," ","w","i","t","h"," ","t","h","i","s"," ","P","y","t","h","o","n"," ","v","e","r","s","i","o","n">>)
                                     \* the message without the {:?} of the tags
        ELSE Ok(wheel_name.val.version))

\* the egg-info base of a Link that is no wheel (evaluator.rs:104-116)
EggInfo(l) ==
    Let(egg(l), LAMBDA fragment :
        IF IsSome(fragment) THEN Ok(Split(Unwrap(fragment), "[")[1])
        ELSE Let(splitext(filename(l)), LAMBDA parts :
                 IF parts[2] \notin ARCHIVE_EXTENSIONS
                 THEN LinkMismatch(<<"U","n","s","u","p","p","o","r","t","e","d"," ","f","i","l","e"," ","f","o","r","m","a","t",":"," ">> \o Display(l))
                 ELSE Ok(parts[1])))

\* the name and version of a Link that is no wheel (evaluator.rs:104-128)
SdistVersion(ev, l, canonical_name) ==
    Try(EggInfo(l), LAMBDA egg_info :
        Let(parse_version_from_egg_info(egg_info, canonical_name), LAMBDA ver :
            IF ~IsSome(ver)
            THEN LinkMismatch(<<"M","i","s","s","i","n","g"," ","v","e","r","s","i","o","n"," ","i","n"," ","t","h","e"," ","f","i","l","e","n","a","m","e"," ">> \o egg_info)
            ELSE TryElse(VersionFromStr(Unwrap(ver)),
                         LinkMismatch(<<"I","n","v","a","l","i","d"," ","v","e","r","s","i","o","n",":"," ">> \o Unwrap(ver)), LAMBDA version :
                         Ok(version))))

\* checked_version that tests the yank before the format
checked_version_yank_first(ev, l) ==
    Try(check_yanked(ev, l), LAMBDA yanked :
    Try(check_format(ev.format_control, l, ev.package_name), LAMBDA format :
    Try(check_requires_python(ev, l), LAMBDA python :
        IF is_wheel(l) THEN WheelVersion(ev, l, canonicalize_name(ev.package_name))
        ELSE SdistVersion(ev, l, canonicalize_name(ev.package_name)))))

\* evaluate_link up to the hash check (evaluator.rs:76-129): the version, or
\* the error of the first check that fails
checked_version(ev, l) ==
    Try(check_format(ev.format_control, l, ev.package_name), LAMBDA format :
    Try(check_yanked(ev, l), LAMBDA yanked :
    Try(check_requires_python(ev, l), LAMBDA python :
        IF is_wheel(l) THEN WheelVersion(ev, l, canonicalize_name(ev.package_name))
        ELSE SdistVersion(ev, l, canonicalize_name(ev.package_name)))))

\* evaluate_link from the hash check on (evaluator.rs:130-135)
hashed_package(ev, l, version, order, http) ==
    IF ~version.ok THEN Outcome(version, <<>>, l)
    ELSE Let(check_hash(ev, l, order, http), LAMBDA hashed :
             IF ~hashed.result.ok THEN hashed
             ELSE Outcome(Ok([name    |-> ev.package_name,
                              version |-> Some(version.val),
                              link    |-> hashed.link]),
                          hashed.requests, hashed.link))

\* Evaluator::evaluate_link
evaluate_link(ev, l, order, http) ==
    hashed_package(ev, l, checked_version(ev, l), order, http)

-----------------------------------------------------------------------------
(* evaluate_package (evaluator.rs:265-315).  A Requirement's version_or_url  *)
(* is None, a URL or the clauses of a version specifier.                     *)

VersionSpecifier(specs) == [tag |-> "VersionSpecifier", specs |-> specs, url |-> <<>>]
RequirementUrl(url) == [tag |-> "Url", specs |-> <<>>, url |-> url]

\* the operators whose pre-release version admits pre-releases
PrereleaseOperators == {<<"=","=">>, <<"=","=","=">>, <<">","=">>, <<"<","=">>, <<"~","=">>}

\* allow_prerelease.unwrap_or(spec.iter().any(..))
AllowPrerelease(allow_prerelease, specs) ==
    IF IsSome(allow_prerelease) THEN Unwrap(allow_prerelease)
    ELSE \E i \in 1..Len(specs) :
            specs[i].operator \in PrereleaseOperators /\ any_prerelease(specs[i].version)

\* the checks of a version against the clauses of a specifier (the two
\* messages without the {} of the specifier and the version)
check_specifier(version, specs, allow_prerelease) ==
    IF ~SpecifiersContain(specs, version)
    THEN LinkMismatch(<<"V","e","r","s","i","o","n"," ","m","i","s","m","a","t","c","h">>)
    ELSE IF any_prerelease(version) /\ ~AllowPrerelease(allow_prerelease, specs)
    THEN LinkMismatch(<<"P","r","e","r","e","l","e","a","s","e"," ","v","e","r","s","i","o","n"," ","n","o","t"," ","p","e","r","m","i","t","t","e","d">>)
    ELSE Ok(<<>>)

evaluate_package(package, requirement, allow_prerelease) ==
    IF canonicalize_name(requirement.name) # canonicalize_name(package.name)
    THEN LinkMismatch(<<"P","a","c","k","a","g","e"," ","n","a","m","e"," ","m","i","s","m","a","t","c","h",":"," ","e","x","p","e","c","t","e","d"," ">> \o requirement.name
                      \o <<","," ","a","c","t","u","a","l"," ">> \o package.name \o <<","," ","s","k","i","p","p","i","n","g">>)
    ELSE IF IsSome(package.version) /\ IsSome(requirement.version_or_url)
            /\ Unwrap(requirement.version_or_url).tag = "VersionSpecifier"
    THEN Try(check_specifier(Unwrap(package.version),
                             Unwrap(requirement.version_or_url).specs, allow_prerelease),
             LAMBDA checked : Ok(package))
    ELSE Ok(package)

-----------------------------------------------------------------------------
(* The source collector (source.rs).                                        *)
(*                                                                          *)
(* An HTML document is the sequence of its <a> elements, each the record of *)
(* its attributes; a JSON document is the sequence of its "files".  The     *)
(* session's answer to a request is a send error or a response: a status,   *)
(* a Content-Type header and a body.                                        *)

\* StatusCode::canonical_reason, "Unknown" for a code that has none
CanonicalReason(status) ==
    IF status = 200 THEN <<"O","K">>
    ELSE IF status = 304 THEN <<"N","o","t"," ","M","o","d","i","f","i","e","d">>
    ELSE IF status = 400 THEN <<"B","a","d"," ","R","e","q","u","e","s","t">>
    ELSE IF status = 404 THEN <<"N","o","t"," ","F","o","u","n","d">>
    ELSE IF status = 500 THEN <<"I","n","t","e","r","n","a","l"," ","S","e","r","v","e","r"," ","E","r","r","o","r">>
    ELSE IF status = 503 THEN <<"S","e","r","v","i","c","e"," ","U","n","a","v","a","i","l","a","b","l","e">>
    ELSE <<"U","n","k","n","o","w","n">>

\* check_for_status that reports every failing status as a client error
check_for_status_client_only(resp) ==
    IF resp.status >= 400
    THEN Err("CollectError",
             <<"C","l","i","e","n","t"," ","E","r","r","o","r","(">> \o NatToStr(resp.status) \o <<")",":"," ">> \o CanonicalReason(resp.status))
    ELSE Ok(<<>>)

check_for_status(resp) ==
    IF resp.status >= 500
    THEN Err("CollectError",
             <<"S","e","r","v","e","r"," ","E","r","r","o","r","(">> \o NatToStr(resp.status) \o <<")",":"," ">> \o CanonicalReason(resp.status))
    ELSE IF resp.status >= 400
    THEN Err("CollectError",
             <<"C","l","i","e","n","t"," ","E","r","r","o","r","(">> \o NatToStr(resp.status) \o <<")",":"," ">> \o CanonicalReason(resp.status))
    ELSE Ok(<<>>)

\* Path::extension of a file name: what follows its last '.', None when the
\* name has no '.' or only a leading one
PathExtension(name) ==
    Let(RFind(name, <<".">>), LAMBDA dot :
        IF dot <= 1 THEN None ELSE Some(DropFirst(name, dot)))

is_archive_file(name) ==
    Let(PathExtension(name), LAMBDA ext :
        IsSome(ext) /\ ToLower(Unwrap(ext)) \in ARCHIVE_EXTENSIONS)

\* mime_guess::from_path(..).first_or_octet_stream() == TEXT_HTML
is_html_file(file_url) ==
    Let(PathExtension(file_url), LAMBDA ext :
        IsSome(ext) /\ ToLower(Unwrap(ext)) \in {<<"h","t","m","l">>, <<"h","t","m">>})

\* RequestBuilder::send: the session's answer; a URL that is not http(s) is
\* refused before anything is sent
IsHttp(l) == l.parsed.scheme \in {<<"h","t","t","p">>, <<"h","t","t","p","s">>}

Send(l, answer) ==
    IF ~IsHttp(l) THEN FromReqwestError(<<"b","u","i","l","d","e","r"," ","e","r","r","o","r">>)
    ELSE IF answer.send = "error" THEN FromReqwestError(<<"e","r","r","o","r"," ","s","e","n","d","i","n","g"," ","r","e","q","u","e","s","t">>)
    ELSE Ok(answer)

\* the requests that reach the session
Sent(l, request) == IF IsHttp(l) THEN <<request>> ELSE <<>>

ensure_index_response(source, head) ==
    IF source.parsed.scheme # <<"h","t","t","p">> /\ source.parsed.scheme # <<"h","t","t","p","s">>
    THEN Outcome(Err("CollectError",
                     <<"N","o","t","H","T","T","P",":"," ","t","h","e"," ","f","i","l","e"," ","l","o","o","k","s"," ","l","i","k","e"," ","a","n"," ","a","r","c","h","i","v","e"," ","b","u","t"," ","i","t","s"," ","c","o","n","t","e","n","t","-","t","y","p","e"," ","c","a","n","n","o","t"," ","b","e"," ","c","h","e","c","k","e","d"," ","b","y"," ","a"," ","H","E","A","D"," ","r","e","q","u","e","s","t",".">>),
                 <<>>, source)
    ELSE Outcome(Try(Send(source, head), LAMBDA resp : check_for_status(resp)),
                 Sent(source, HttpHead(source.normalized)), source)

TextHtml == <<"t","e","x","t","/","h","t","m","l">>
SimpleHtml == <<"a","p","p","l","i","c","a","t","i","o","n","/","v","n","d",".","p","y","p","i",".","s","i","m","p","l","e",".","v","1","+","h","t","m","l">>
SimpleJson == <<"a","p","p","l","i","c","a","t","i","o","n","/","v","n","d",".","p","y","p","i",".","s","i","m","p","l","e",".","v","1","+","j","s","o","n">>

\* Response::text: the body as a string.  Response::json: the body as a
\* Response, an error unless the body is JSON in which every file has the
\* field "yanked".
ResponseText(resp) ==
    IF resp.body.kind = "undecodable" THEN FromReqwestError(<<"e","r","r","o","r"," ","d","e","c","o","d","i","n","g"," ","r","e","s","p","o","n","s","e"," ","b","o","d","y">>)
    ELSE Ok(resp.body)

ResponseJson(resp) ==
    IF resp.body.kind # "json"
       \/ \E i \in 1..Len(resp.body.files) : ~IsSome(resp.body.files[i].yanked)
    THEN FromReqwestError(<<"e","r","r","o","r"," ","d","e","c","o","d","i","n","g"," ","r","e","s","p","o","n","s","e"," ","b","o","d","y">>)
    ELSE Ok(resp.body)

\* a header value: its text, or bytes that to_str() cannot decode
HeaderValue(text) == [valid |-> TRUE, text |-> text]
OpaqueHeaderValue == [valid |-> FALSE, text |-> <<>>]

\* the match on the Content-Type header (source.rs:145-158)
Dispatch(resp) ==
    IF resp.content_type = None
    THEN Err("CollectError", <<"U","n","s","u","p","p","o","r","t","e","d"," ","C","o","n","t","e","n","t","-","T","y","p","e"," ","h","e","a","d","e","r">>)
    ELSE IF ~Unwrap(resp.content_type).valid
    THEN Err("CollectError", <<"I","n","v","a","l","i","d"," ","C","o","n","t","e","n","t","-","T","y","p","e"," ","h","e","a","d","e","r">>)
    ELSE IF Unwrap(resp.content_type).text \in {TextHtml, SimpleHtml}
    THEN Try(ResponseText(resp), LAMBDA text : Ok([parser |-> "html", document |-> text]))
    ELSE IF Unwrap(resp.content_type).text = SimpleJson
    THEN Try(ResponseJson(resp), LAMBDA json : Ok([parser |-> "json", document |-> json]))
    ELSE Err("CollectError", <<"U","n","s","u","p","p","o","r","t","e","d"," ","C","o","n","t","e","n","t","-","T","y","p","e"," ","h","e","a","d","e","r">>)

\* get_pypi_response from the GET on (source.rs:136-158)
get_page(source, get) ==
    Try(Send(source, get), LAMBDA resp :
    Try(check_for_status(resp), LAMBDA checked :
        Dispatch(resp)))

get_pypi_response(source, head, get) ==
    Let(IF is_archive_file(filename(source))
        THEN ensure_index_response(source, head)
        ELSE Outcome(Ok(<<>>), <<>>, source), LAMBDA ensured :
        IF ~ensured.result.ok THEN ensured
        ELSE Outcome(get_page(source, get),
                     ensured.requests \o Sent(source, HttpGet(source.normalized)), source))

\* Url::join: href resolved against base.  An href with a scheme is parsed
\* on its own, "//..." takes the base's scheme, "/..." replaces the base's
\* path, anything else replaces the last segment of the base's path; a
\* base that cannot be a base (no authority, a path not starting with '/')
\* resolves no relative href.
JoinPath(base, href, hpath, fragment) ==
    IF ~base.authority /\ ~StartsWith(base.path, <<"/">>) THEN UrlParseError
    ELSE IF hpath = <<>> THEN Ok([base EXCEPT !.fragment = fragment])
    ELSE IF StartsWith(href, <<"/">>)
    THEN Ok([base EXCEPT !.path = hpath, !.fragment = fragment])
    ELSE Ok([base EXCEPT !.path = Slice(base.path, 1, RFind(base.path, <<"/">>)) \o hpath,
                         !.fragment = fragment])

UrlJoin(base, href) ==
    Let2(Find(href, <<":">>), Find(href, <<"#">>), LAMBDA colon, h :
        IF (colon > 1 /\ ValidSchemeChars(Slice(href, 1, colon - 1)))
           \/ (StartsWith(href, <<"/","/">>) /\ (base.authority \/ StartsWith(base.path, <<"/">>)))
        THEN UrlParse(IF StartsWith(href, <<"/","/">>)
                         /\ ~(colon > 1 /\ ValidSchemeChars(Slice(href, 1, colon - 1)))
                      THEN base.scheme \o <<":">> \o href ELSE href)
        ELSE JoinPath(base, href,
                      IF h = 0 THEN href ELSE Slice(href, 1, h - 1),
                      IF h = 0 THEN None ELSE Some(DropFirst(href, h))))

\* DistMetadata (link.rs:17-26)
MetadataEnabled(b) == [tag |-> "Enabled", enabled |-> b]
MetadataHashes(m) == [tag |-> "Hashes", hashes |-> m]

\* the data-metadata attribute of an <a> element (source.rs:176-186)
HtmlMetadata(attribute) ==
    IF ~IsSome(attribute) THEN None
    ELSE Let(Find(Unwrap(attribute), <<"=">>), LAMBDA e :     \* split_once('=')
             IF e = 0 THEN Some(MetadataEnabled(TRUE))
             ELSE Some(MetadataHashes(
                      PairsToMap(<<<<Slice(Unwrap(attribute), 1, e - 1),
                                     DropFirst(Unwrap(attribute), e)>>>>))))

\* Some(link) of Ok(link), None of an error
OkLink(made) == IF made.ok THEN Some(made.val) ELSE None

\* the closure of parse_links_from_html's filter_map: the Link of one <a>
\* element, None when it yields none
HtmlLink(a, base, from_url) ==
    IF ~IsSome(a.href) THEN None
    ELSE Let(UrlJoin(base, Unwrap(a.href)), LAMBDA url :
             IF ~url.ok THEN None
             ELSE OkLink(LinkNew(UrlToString(url.val), Some(from_url), a.data_yanked,
                                 a.data_requires_python, None,
                                 HtmlMetadata(a.data_metadata))))

\* HtmlLinks that collects the Links from the last <a> element to the first
RECURSIVE HtmlLinks_reversed(_, _, _)
HtmlLinks_reversed(anchors, base, from_url) ==
    IF anchors = <<>> THEN <<>>
    ELSE HtmlLinks_reversed(Tail(anchors), base, from_url)
         \o HtmlLink(Head(anchors), base, from_url)

RECURSIVE HtmlLinks(_, _, _)
HtmlLinks(anchors, base, from_url) ==
    IF anchors = <<>> THEN <<>>
    ELSE HtmlLink(Head(anchors), base, from_url) \o HtmlLinks(Tail(anchors), base, from_url)

\* Html::parse_document and the selector "a": the <a> elements of a text,
\* none in a text that is not HTML
SelectAnchors(body) == IF body.kind = "html" THEN body.anchors ELSE <<>>

parse_links_from_html(html, from_url) ==
    TryElse(UrlParse(from_url), Panic, LAMBDA base_url :
            Ok(HtmlLinks(SelectAnchors(html), base_url, from_url)))

\* the closure of parse_links_from_json's filter_map
JsonLink(file, base, from_url) ==
    IF ~IsSome(file.url) THEN None
    ELSE Let(UrlJoin(base, Unwrap(file.url)), LAMBDA url :
             OkLink(LinkNew(UrlToString(url.val), Some(from_url),
                            IF Unwrap(file.yanked).tag = "Yes"
                            THEN Some(Unwrap(file.yanked).reason) ELSE None,
                            file.requires_python, file.hashes,
                            file.data_dist_info_metadata)))

RECURSIVE JsonLinks(_, _, _)
JsonLinks(files, base, from_url) ==
    IF files = <<>> THEN <<>>
    ELSE JsonLink(Head(files), base, from_url) \o JsonLinks(Tail(files), base, from_url)

parse_links_from_json(json, from_url) ==
    TryElse(UrlParse(from_url), Panic, LAMBDA base_url :
        IF \E i \in 1..Len(json.files) :
              /\ IsSome(json.files[i].url)
              /\ ~UrlJoin(base_url, Unwrap(json.files[i].url)).ok
        THEN Panic         \* base_url.join(..).unwrap()
        ELSE Ok(JsonLinks(json.files, base_url, from_url)))

\* Url::to_file_path: no path for a file URL with a host other than localhost
\* Link::file_path
file_path(l) ==
    IF is_file(l)
    THEN IF HasHost(l.parsed) /\ l.parsed.host # Some(<<"l","o","c","a","l","h","o","s","t">>)
         THEN Err("UrlError", <<"I","n","v","a","l","i","d"," ","f","i","l","e"," ","U","R","L",":"," ">> \o l.normalized)
         ELSE Ok(l.parsed.path)
    ELSE Err("UrlError", <<"N","o","t"," ","a"," ","f","i","l","e"," ","U","R","L",":"," ">> \o l.normalized)

\* std::fs::read_to_string of a file of the file system fs
ReadToString(fs) ==
    IF fs.read.kind = "error" THEN FromIoError(<<"N","o"," ","s","u","c","h"," ","f","i","l","e"," ","o","r"," ","d","i","r","e","c","t","o","r","y">>)
    ELSE IF fs.read.kind = "undecodable"
    THEN FromIoError(<<"s","t","r","e","a","m"," ","d","i","d"," ","n","o","t"," ","c","o","n","t","a","i","n"," ","v","a","l","i","d"," ","U","T","F","-","8">>)
    ELSE Ok(fs.read)

LogLine(level, message) == [level |-> level, message |-> message]

\* what a collector call leaves: its return value, the requests it sent and
\* the lines it logged
Collected(r, sent, logged) == [result |-> r, requests |-> sent, logs |-> logged]

\* the links of a page of the session (source.rs:123-126)
parse_page(page, from_link) ==
    IF page.parser = "html" THEN parse_links_from_html(page.document, from_link)
    ELSE parse_links_from_json(page.document, from_link)

\* the links of a local file (source.rs:111-113)
collect_links_from_file(source, fs, from_link) ==
    Collected(Try(file_path(source), LAMBDA path :
              Try(ReadToString(fs), LAMBDA html :
                  parse_links_from_html(html, from_link))),
              <<>>, <<>>)

\* collect_links_from_page that propagates every error of the page fetch
collect_links_from_page_strict(source, head, get, fs) ==
    IF is_file(source)
    THEN collect_links_from_file(source, fs, url_without_fragment(source))
    ELSE Let(get_pypi_response(source, head, get), LAMBDA page :
             Collected(Try(page.result, LAMBDA document :
                           parse_page(document, url_without_fragment(source))),
                       page.requests, <<>>))

collect_links_from_page(source, head, get, fs) ==
    IF is_file(source)
    THEN collect_links_from_file(source, fs, url_without_fragment(source))
    ELSE Let(get_pypi_response(source, head, get), LAMBDA page :
             IF ~page.result.ok /\ page.result.kind = "CollectError"
             THEN Collected(Ok(<<>>), page.requests,
                            <<LogLine("warn", <<"F","a","i","l","e","d"," ","t","o"," ","c","o","l","l","e","c","t"," ","l","i","n","k","s"," ","f","r","o","m"," ">>
                                              \o Display(source)
                                              \o <<":"," ">> \o page.result.message)>>)
             ELSE Collected(Try(page.result, LAMBDA document :
                                parse_page(document, url_without_fragment(source))),
                            page.requests, <<>>))

\* Url::from_file_path(path.join(name)).to_string()
FileUrl(path, name) == <<"f","i","l","e",":","/","/">> \o StripTrailingSlashes(path) \o <<"/">> \o name

\* the links of one entry of a directory (source.rs:71-79)
EntryLinks(file_url, head, get, fs) ==
    Try(LinkFromStr(file_url), LAMBDA file_link :
        IF is_html_file(file_url)
        THEN collect_links_from_page(file_link, head, get, fs).result
        ELSE Ok(<<file_link>>))

\* the loop over the entries of a directory (source.rs:68-81): the links
\* collected so far, or the first error
RECURSIVE ExpandEntries(_, _, _, _, _)
ExpandEntries(entries, path, head, get, fs) ==
    IF entries = <<>> THEN Ok(<<>>)
    ELSE Try(EntryLinks(FileUrl(path, Head(entries)), head, get, fs), LAMBDA found :
         Try(ExpandEntries(Tail(entries), path, head, get, fs), LAMBDA more :
             Ok(found \o more)))

\* collect_links of a directory (source.rs:62-92)
collect_links_from_dir(path, expand, head, get, fs) ==
    IF expand
    THEN Try(IF fs.listing.ok THEN fs.listing ELSE FromIoError(<<"P","e","r","m","i","s","s","i","o","n"," ","d","e","n","i","e","d">>),
             LAMBDA entries : ExpandEntries(entries, path, head, get, fs))
    ELSE Try(LinkFromStr(FileUrl(path, <<"i","n","d","e","x",".","h","t","m","l">>)), LAMBDA file_link :
             collect_links_from_page(file_link, head, get, fs).result)

\* collect_links after its debug line
collect_links_from(source, expand, head, get, fs) ==
    IF is_file(source) /\ ~file_path(source).ok THEN Collected(Panic, <<>>, <<>>)
    ELSE IF is_file(source) /\ fs.kind = "dir"
    THEN Collected(collect_links_from_dir(file_path(source).val, expand, head, get, fs),
                   <<>>, <<>>)
    ELSE collect_links_from_page(source, head, get, fs)

collect_links(source, expand, head, get, fs) ==
    Let(collect_links_from(source, expand, head, get, fs), LAMBDA found :
        Collected(found.result, found.requests,
                  <<LogLine("debug", <<"C","o","l","l","e","c","t","i","n","g"," ","l","i","n","k","s"," ","f","r","o","m"," ">> \o Display(source))>>
                  \o found.logs))

-----------------------------------------------------------------------------
(* PyPISession (session.rs) *)

\* PyPISession::new
PyPISessionNew == [trusted_host_ports |-> <<>>]

\* a netloc the code takes for a bare IPv6 address
BareIpv6(netloc) ==
    /\ Cardinality(Occurrences(netloc, <<":">>)) >= 2
    /\ ~Contains(netloc, <<"@">>)
    /\ ~Contains(netloc, <<"[">>)

\* build_url_from_netloc that never wraps the netloc in brackets
build_url_from_netloc_unwrapped(netloc) ==
    TryElse(UrlParse(<<"h","t","t","p","s",":","/","/">> \o netloc),
            Err("ValueError", <<"I","n","v","a","l","i","d"," ","h","o","s","t",":"," ">> \o netloc), LAMBDA url : Ok(url))

build_url_from_netloc(netloc) ==
    TryElse(UrlParse(IF BareIpv6(netloc) THEN <<"h","t","t","p","s",":","/","/","[">> \o netloc \o <<"]">>
                     ELSE <<"h","t","t","p","s",":","/","/">> \o netloc),
            Err("ValueError", <<"I","n","v","a","l","i","d"," ","h","o","s","t",":"," ">> \o netloc), LAMBDA url : Ok(url))

\* (url.host_str().unwrap().to_string(), url.port())
HostPort(url) ==
    [host |-> Unwrap(url.host),
     port |-> IF IsSome(url.port) THEN Some(ToNat(Unwrap(url.port))) ELSE None]

\* add_trusted_host: the result and the session it leaves
add_trusted_host(s, host) ==
    Let(build_url_from_netloc(host), LAMBDA url :
        IF ~url.ok THEN [result |-> url, session |-> s]
        ELSE IF ~HasHost(url.val) THEN [result |-> Panic, session |-> s]
        ELSE [result |-> Ok(<<>>),
              session |-> [s EXCEPT !.trusted_host_ports = Append(@, HostPort(url.val))]])

\* get, head, post, put, patch, delete: the RequestBuilder of the client
RequestBuilder(method, url) == [method |-> method, url |-> url]

-----------------------------------------------------------------------------
(* The Evaluator specification: one Evaluator, one Link, one evaluate_link *)

\* the most chunks a response body is read in
MaxChunks == 1

Chunks == {<<"0">>, <<"1">>}
Bodies == SeqsBetween(Chunks, 0, MaxChunks)

\* what the session answers to the GET of get_hash
HttpAnswers ==
    {[send |-> "error", body |-> <<>>, read |-> "ok"],
     [send |-> "ok", body |-> <<>>, read |-> "error"]}
    \cup {[send |-> "ok", body |-> b, read |-> "ok"] : b \in Bodies}

PackageNames == {<<"f","o","o">>, <<"F","o","o",".","B","a","r">>}

\* the FormatControl values FormatControl::new returns
FormatControls ==
    {FormatControlNew(pair[1], pair[2]).val :
        pair \in {p \in BOOLEAN \X BOOLEAN : FormatControlNew(p[1], p[2]).ok}}

Py37 == [py_ver |-> <<3, 7>>, supported_tags |-> <<>>]
Py39 == [py_ver |-> <<3, 9>>,
         supported_tags |-> <<<<<<"c","p","3","9">>, <<"c","p","3","9">>, <<"l","i","n","u","x">>>>, <<<<"p","y","3">>, <<"n","o","n","e">>, <<"a","n","y">>>>>>]

\* (target_python, ignore_compatibility)
Compatibilities == {<<Py37, FALSE>>, <<Py39, FALSE>>, <<Py37, TRUE>>}

HashConfigs ==
    {EmptyMap,
     MapInsert(EmptyMap, <<"s","h","a","2","5","6">>, <<<<"a","0">>, <<"a","1">>>>),
     MapInsert(MapInsert(EmptyMap, <<"s","h","a","2","5","6">>, <<<<"a","0">>>>), <<"m","d","5">>, <<<<"m","0">>, <<"m">>>>),
     MapInsert(EmptyMap, <<"b","l","a","k","e","2">>, <<<<"z","z">>>>)}

Evaluators ==
    {[package_name         |-> name,
      format_control       |-> fc,
      target_python        |-> compat[1],
      ignore_compatibility |-> compat[2],
      allow_yanked         |-> yanked,
      hashes               |-> configured] :
        name \in PackageNames, fc \in FormatControls, compat \in Compatibilities,
        yanked \in BOOLEAN, configured \in HashConfigs}

EvalFiles ==
    {<<"f","o","o","-","1",".","0",".","t","a","r",".","g","z">>, <<"f","o","o","-","1",".","0","-","p","y","3","-","n","o","n","e","-","a","n","y",".","w","h","l">>, <<"f","o","o","-","1",".","0",".","e","x","e">>,
     <<"b","a","r","-","1",".","0",".","z","i","p">>, <<"f","o","o","_","b","a","r","-","2",".","0",".","z","i","p">>, <<"f","o","o","_","b","a","r","-","2",".","0","-","p","y","3","-","n","o","n","e","-","a","n","y",".","w","h","l">>}

\* what stands before the host and after the file name
EvalDecorations ==
    {<<<<>>, <<>>>>, <<<<>>, <<"#","s","h","a","2","5","6","=","a","0">>>>, <<<<>>, <<"#","s","h","a","2","5","6","=","a","0","&","m","d","5","=","z","z">>>>,
     <<<<>>, <<"#","e","g","g","=","f","o","o","-","2",".","0">>>>, <<<<"b","o","b",":","p","w","@">>, <<>>>>}

EvalUrls ==
    {<<"h","t","t","p","s",":","/","/">> \o d[1] \o <<"h","o","s","t","/">> \o f \o d[2] : d \in EvalDecorations, f \in EvalFiles}

\* (yank_reason, requires_python, hashes_map)
EvalMetadata ==
    {<<None, None, None>>,
     <<Some(<<"b","a","d">>), None, None>>,
     <<None, Some(<<">","=","3",".","8">>), None>>,
     <<None, Some(<<"3",".","8"," ","o","r"," ","s","o">>), None>>,
     <<None, None, Some(MapInsert(EmptyMap, <<"s","h","a","2","5","6">>, <<"a","0">>))>>,
     <<None, None, Some(MapInsert(EmptyMap, <<"s","h","a","2","5","6">>, <<"z","z">>))>>,
     <<Some(<<"b","a","d">>), Some(<<"3",".","8"," ","o","r"," ","s","o">>), Some(MapInsert(EmptyMap, <<"s","h","a","2","5","6">>, <<"z","z">>))>>}

EvalLinks ==
    {LinkNew(url, None, m[1], m[2], m[3], None).val : url \in EvalUrls, m \in EvalMetadata}

\* the orders in which a HashMap with these keys may iterate
Orderings(keys) ==
    {o \in [1..Cardinality(keys) -> keys] : \A i, j \in DOMAIN o : i # j => o[i] # o[j]}

Init ==
    /\ evaluator \in Evaluators
    /\ link \in {Some(l) : l \in EvalLinks}
    /\ result = Ok(<<>>)
    /\ requests = <<>>
    /\ logs = <<>>
    /\ session = PyPISessionNew
    /\ op = "init"
    /\ args = <<>>

\* what evaluate_link leaves behind.  args keeps the order of the hashes
\* and the session's answer, if a request was sent.
EvaluateStep(out, order, http) ==
    /\ result' = out.result
    /\ requests' = out.requests
    /\ args' = <<order, IF out.requests = <<>> THEN None ELSE Some(http)>>

\* evaluator.evaluate_link(link)
EvaluateLink ==
    /\ op = "init"
    /\ Let(checked_version(evaluator, Unwrap(link)), LAMBDA version :
           \E order \in Orderings(DOMAIN evaluator.hashes), http \in HttpAnswers :
              EvaluateStep(hashed_package(evaluator, Unwrap(link), version, order, http),
                           order, http))
    /\ op' = "evaluate_link"
    /\ logs' = <<>>
    /\ UNCHANGED <<session, evaluator, link>>

Next == EvaluateLink

Spec == Init /\ [][Next]_vars

-----------------------------------------------------------------------------
(* Properties of evaluate_link, checked under Spec *)

Evaluated == op = "evaluate_link"
TheLink == Unwrap(link)

\* the digests the Link exposes, as a map (empty when it exposes none)
Exposed == IF IsSome(hashes(TheLink)) THEN Unwrap(hashes(TheLink)) ELSE EmptyMap

\* the configured algorithms for which the Link exposes a digest that is in
\* / not in the algorithm's allowed list
Agreeing ==
    {a \in DOMAIN evaluator.hashes \cap DOMAIN Exposed :
        VecContains(evaluator.hashes[a], Exposed[a])}
Disagreeing ==
    {a \in DOMAIN evaluator.hashes \cap DOMAIN Exposed :
        ~VecContains(evaluator.hashes[a], Exposed[a])}

\* the text of a hash-mismatch message
MismatchText(algo, expected, actual) ==
    <<"H","a","s","h"," ","m","i","s","m","a","t","c","h"," ","f","o","r"," ">> \o algo \o <<":"," ","e","x","p","e","c","t","e","d"," ">> \o Join(expected, <<"/">>)
    \o <<","," ","a","c","t","u","a","l"," ">> \o actual

\* the egg-info base of the Link names the package: some prefix of it that is
\* followed by '-' or '_' is canonically the package name
EggInfoNamesPackage ==
    /\ EggInfo(TheLink).ok
    /\ \E i \in 1..Len(EggInfo(TheLink).val) :
          /\ EggInfo(TheLink).val[i] \in {"-", "_"}
          /\ canonicalize_name(Slice(EggInfo(TheLink).val, 1, i - 1))
             = canonicalize_name(evaluator.package_name)

WheelOfLink == WheelNameFromStr(filename(TheLink))

\* C1: whenever evaluate_link returns a Package, every check passed for the
\* Link: the format policy allows it; it is not yanked or allow_yanked is set;
\* its requires_python, when present and compatibility is not ignored, parses
\* and admits the target Python version; its name is canonically the
\* configured package name; a wheel, when compatibility is not ignored, has a
\* tag among the supported tags; and, when hashes are configured, the Link of
\* the Package carries for a configured algorithm a digest of the allowed list.
C1_AcceptedPassedEveryCheck ==
    (Evaluated /\ result.ok) =>
        /\ ~(evaluator.format_control.only_binary /\ ~is_wheel(TheLink))
        /\ ~(evaluator.format_control.no_binary /\ is_wheel(TheLink))
        /\ IsSome(TheLink.yank_reason) => evaluator.allow_yanked
        /\ (IsSome(TheLink.requires_python) /\ ~evaluator.ignore_compatibility) =>
              /\ VersionSpecifiersFromStr(Unwrap(TheLink.requires_python)).ok
              /\ SpecifiersContain(VersionSpecifiersFromStr(Unwrap(TheLink.requires_python)).val,
                                   PyVerToVersion(evaluator.target_python.py_ver))
        /\ result.val.name = evaluator.package_name
        /\ IF is_wheel(TheLink)
           THEN /\ WheelOfLink.ok
                /\ canonicalize_name(WheelOfLink.val.distribution)
                   = canonicalize_name(evaluator.package_name)
                /\ ~evaluator.ignore_compatibility =>
                      \E i \in 1..Len(evaluator.target_python.supported_tags) :
                          evaluator.target_python.supported_tags[i] \in WheelOfLink.val.tags
           ELSE EggInfoNamesPackage
        /\ DOMAIN evaluator.hashes # {} =>
              /\ IsSome(hashes(result.val.link))
              /\ \E a \in DOMAIN evaluator.hashes \cap DOMAIN Unwrap(hashes(result.val.link)) :
                    VecContains(evaluator.hashes[a], Unwrap(hashes(result.val.link))[a])

\* a yanked wheel with a requires_python is accepted under configured hashes
C1_Witness ==
    /\ Evaluated /\ result.ok
    /\ is_wheel(TheLink)
    /\ ~evaluator.ignore_compatibility
    /\ DOMAIN evaluator.hashes # {}
    /\ IsSome(TheLink.requires_python)

C1_WitnessYanked ==
    /\ Evaluated /\ result.ok
    /\ IsSome(TheLink.yank_reason)
    /\ ~is_wheel(TheLink)
    /\ DOMAIN evaluator.hashes # {}

\* C2: when hashes are configured and the Link exposes, for a configured
\* algorithm, a digest of that algorithm's allowed list, the hash check
\* accepts the Link and sends no GET; a GET is sent only when the Link
\* exposes no digest for any configured algorithm.
C2_NoDownloadWhenDigestAgrees ==
    (Evaluated /\ checked_version(evaluator, TheLink).ok) =>
        /\ Agreeing # {} => (result.ok /\ requests = <<>>)
        /\ requests # <<>> => DOMAIN evaluator.hashes \cap DOMAIN Exposed = {}

\* the body of a Link is downloaded although a digest it exposes is allowed
C2_Witness ==
    /\ Evaluated
    /\ checked_version(evaluator, TheLink).ok
    /\ Agreeing # {}
    /\ requests = <<HttpGet(TheLink.normalized)>>

\* C3: when hashes are configured and the Link exposes, for some configured
\* algorithm, a digest outside that algorithm's allowed list, evaluate_link
\* fails with LinkMismatchError and sends no GET; when the earlier checks
\* passed the message is the hash-mismatch message of such an algorithm, its
\* expected digests joined with '/'.
C3_ExposedMismatchRejects ==
    (Evaluated /\ Disagreeing # {}) =>
        /\ ~result.ok
        /\ result.kind = "LinkMismatchError"
        /\ requests = <<>>
        /\ checked_version(evaluator, TheLink).ok =>
              \E a \in Disagreeing :
                  result.message = MismatchText(a, evaluator.hashes[a], Exposed[a])

\* the hash check rejects a Link on a digest it exposes, the allowed list of
\* the algorithm holding two digests
C3_Witness ==
    /\ Evaluated
    /\ checked_version(evaluator, TheLink).ok
    /\ \E a \in Disagreeing :
          /\ Len(evaluator.hashes[a]) = 2
          /\ result.message = MismatchText(a, evaluator.hashes[a], Exposed[a])
          /\ Contains(result.message, <<"/">>)

\* the digest of the body the session answered with, for the algorithm the
\* hash check picked: the algorithm's mark followed by the chunks in order
RECURSIVE Flatten(_)
Flatten(chunks) == IF chunks = <<>> THEN <<>> ELSE Head(chunks) \o Flatten(Tail(chunks))

Picked == args[1][1]
Downloaded == <<HasherMark(Picked)>> \o Flatten(Unwrap(args[2]).body)

\* the body was downloaded and digested: the earlier checks passed, the GET
\* was answered, the picked algorithm has a hasher and no read failed
Digested ==
    /\ Evaluated
    /\ DOMAIN evaluator.hashes # {}
    /\ checked_version(evaluator, TheLink).ok
    /\ IsSome(args[2])
    /\ Unwrap(args[2]).send = "ok"
    /\ Unwrap(args[2]).read = "ok"
    /\ Picked \in HasherAlgos

\* C4: when hashes are configured and the Link exposes no hashes, the hash
\* check GETs the normalized URL, digests the body with one configured
\* algorithm and accepts iff the digest is in that algorithm's allowed list;
\* the Link of the returned Package has hashes_map[algorithm] = digest; a
\* digest outside the list fails with LinkMismatchError, the message listing
\* the expected digests.
C4_DownloadedDigestDecides ==
    (Evaluated /\ DOMAIN evaluator.hashes # {} /\ hashes(TheLink) = None
        /\ checked_version(evaluator, TheLink).ok) =>
        /\ requests = <<HttpGet(TheLink.normalized)>>
        /\ Picked \in DOMAIN evaluator.hashes
        /\ Digested =>
              /\ result.ok <=> VecContains(evaluator.hashes[Picked], Downloaded)
              /\ result.ok =>
                    /\ IsSome(result.val.link.hashes_map)
                    /\ Picked \in DOMAIN Unwrap(result.val.link.hashes_map)
                    /\ Unwrap(result.val.link.hashes_map)[Picked] = Downloaded
              /\ ~result.ok =>
                    /\ result.kind = "LinkMismatchError"
                    /\ result.message
                       = MismatchText(Picked, evaluator.hashes[Picked], Downloaded)

\* a Link that exposes no hashes is accepted on the digest of its body
C4_Witness ==
    /\ Digested
    /\ hashes(TheLink) = None
    /\ result.ok
    /\ Unwrap(result.val.link.hashes_map)[Picked] = Downloaded

\* a Link that exposes no hashes is rejected on the digest of its body
C4_WitnessRejected ==
    /\ Digested
    /\ hashes(TheLink) = None
    /\ ~result.ok
    /\ Len(evaluator.hashes[Picked]) = 2

\* C10: no error message of evaluate_link holds the password of the Link's
\* URL: a message that embeds the Link embeds its redacted form.
C10_MessagesHideCredentials ==
    (Evaluated /\ ~result.ok /\ IsSome(TheLink.parsed.password)) =>
        ~Contains(result.message, Unwrap(TheLink.parsed.password))

\* the message of a rejected Link holds the password of its URL
C10_Witness ==
    /\ Evaluated
    /\ ~result.ok
    /\ IsSome(TheLink.parsed.password)
    /\ result.message = <<"U","n","s","u","p","p","o","r","t","e","d"," ","f","i","l","e"," ","f","o","r","m","a","t",":"," ">> \o TheLink.normalized
    /\ Contains(result.message, Unwrap(TheLink.parsed.password))


\* the name check of a wheel ran: the checks before it passed and the file
\* name parsed as a wheel name
NameChecked ==
    /\ Evaluated
    /\ is_wheel(TheLink)
    /\ WheelOfLink.ok
    /\ check_format(evaluator.format_control, TheLink, evaluator.package_name).ok
    /\ check_yanked(evaluator, TheLink).ok
    /\ check_requires_python(evaluator, TheLink).ok

NameRejected ==
    /\ ~result.ok
    /\ result.kind = "LinkMismatchError"
    /\ StartsWith(result.message, <<"T","h","e"," ","p","a","c","k","a","g","e"," ","n","a","m","e"," ">>)

\* C17: the name check of a wheel passes iff the distribution of the wheel
\* name and the configured package name have the same canonical form; a
\* difference in case or in separators alone does not reject the wheel.
C17_WheelNameComparedCanonically ==
    NameChecked =>
        (NameRejected <=> canonicalize_name(WheelOfLink.val.distribution)
                          # canonicalize_name(evaluator.package_name))

\* the wheel foo_bar-2.0 is rejected for its name under the package Foo.Bar
C17_Witness ==
    /\ NameChecked
    /\ NameRejected
    /\ WheelOfLink.val.distribution = <<"f","o","o","_","b","a","r">>
    /\ evaluator.package_name = <<"F","o","o",".","B","a","r">>
    /\ canonicalize_name(WheelOfLink.val.distribution)
       = canonicalize_name(evaluator.package_name)

\* a wheel whose distribution is the canonical package name passes the check
C17_WitnessAccepted ==
    /\ NameChecked
    /\ ~NameRejected
    /\ WheelOfLink.val.distribution = canonicalize_name(evaluator.package_name)

\* the Link of the returned Package
ReturnedLink == result.val.link

\* what evaluate_link does to the Link it is given
LinkFrame ==
    (Evaluated /\ result.ok) =>
        /\ ReturnedLink.url = TheLink.url
        /\ ReturnedLink.normalized = TheLink.normalized
        /\ ReturnedLink.vcs = TheLink.vcs
        /\ ReturnedLink.comes_from = TheLink.comes_from
        /\ ReturnedLink.yank_reason = TheLink.yank_reason
        /\ ReturnedLink.requires_python = TheLink.requires_python
        /\ ReturnedLink.dist_metadata = TheLink.dist_metadata
        /\ [ReturnedLink EXCEPT !.hashes_map = TheLink.hashes_map] = TheLink
        /\ DOMAIN evaluator.hashes = {} => ReturnedLink = TheLink
        /\ ReturnedLink # TheLink =>
              /\ Digested
              /\ ReturnedLink.hashes_map
                 = Some(MapInsert(IF IsSome(TheLink.hashes_map)
                                  THEN Unwrap(TheLink.hashes_map) ELSE EmptyMap,
                                  Picked, Downloaded))

\* C20: evaluate_link changes nothing of the Link but hashes_map, into which
\* it writes the digest it computed: the Link of the returned Package has the
\* url, normalized URL, vcs, comes_from, yank_reason, requires_python and
\* dist_metadata of the Link given; with no hashes configured the Link comes
\* back as given; and the Evaluator is left as it was.
C20_OnlyDigestWrittenBack ==
    [](LinkFrame) /\ [][evaluator' = evaluator]_vars

\* a yanked Link comes back with the digest of its body added
C20_Witness ==
    /\ Evaluated /\ result.ok
    /\ ReturnedLink # TheLink
    /\ IsSome(TheLink.yank_reason)
    /\ ReturnedLink.yank_reason = TheLink.yank_reason

\* with no hashes configured a Link that carries hashes comes back as given
C20_WitnessUnchanged ==
    /\ Evaluated /\ result.ok
    /\ DOMAIN evaluator.hashes = {}
    /\ IsSome(TheLink.hashes_map)
    /\ ReturnedLink = TheLink

\* the outcome of each check of evaluate_link, taken alone
FormatCheck == check_format(evaluator.format_control, TheLink, evaluator.package_name)
YankCheck == check_yanked(evaluator, TheLink)
PythonCheck == check_requires_python(evaluator, TheLink)
VersionCheck ==
    IF is_wheel(TheLink)
    THEN WheelVersion(evaluator, TheLink, canonicalize_name(evaluator.package_name))
    ELSE SdistVersion(evaluator, TheLink, canonicalize_name(evaluator.package_name))

\* C21: evaluate_link checks the format, then the yank, then requires-python,
\* then the name and version (with the tags of a wheel), then the hashes: the
\* error returned is that of the first of these checks that fails, and a GET
\* is sent only when every check before the hash check passed.
C21_FirstFailingCheckDecides ==
    Evaluated =>
        /\ ~FormatCheck.ok => result = FormatCheck
        /\ (FormatCheck.ok /\ ~YankCheck.ok) => result = YankCheck
        /\ (FormatCheck.ok /\ YankCheck.ok /\ ~PythonCheck.ok) => result = PythonCheck
        /\ (FormatCheck.ok /\ YankCheck.ok /\ PythonCheck.ok /\ ~VersionCheck.ok) =>
              result = VersionCheck
        /\ requests # <<>> =>
              FormatCheck.ok /\ YankCheck.ok /\ PythonCheck.ok /\ VersionCheck.ok

\* the format, the yank, requires-python and an exposed digest all reject the
\* Link; the error is that of the format
C21_Witness ==
    /\ Evaluated
    /\ ~FormatCheck.ok /\ ~YankCheck.ok /\ ~PythonCheck.ok
    /\ Disagreeing # {}
    /\ result = FormatCheck
    /\ requests = <<>>

\* the yank and the name reject the Link; the error is that of the yank
C21_WitnessYank ==
    /\ Evaluated
    /\ FormatCheck.ok /\ ~YankCheck.ok /\ ~VersionCheck.ok
    /\ result = YankCheck

\* every check before the hash check passed and the GET was sent
C21_WitnessGet ==
    /\ Evaluated
    /\ VersionCheck.ok
    /\ requests = <<HttpGet(TheLink.normalized)>>

\* the requires_python of the Link, parsed
RequiresPython == VersionSpecifiersFromStr(Unwrap(TheLink.requires_python))
TargetVersion == PyVerToVersion(evaluator.target_python.py_ver)

\* the error is one of the requires-python step / of the tags of a wheel
PythonRejected ==
    /\ ~result.ok
    /\ \/ StartsWith(result.message, <<"I","n","v","a","l","i","d"," ","r","e","q","u","i","r","e","s","-","p","y","t","h","o","n"," ","s","p","e","c","i","f","i","e","r",":"," ">>)
       \/ StartsWith(result.message, <<"T","h","e"," ","t","a","r","g","e","t"," ","p","y","t","h","o","n"," ","v","e","r","s","i","o","n","(">>)

TagsRejected ==
    /\ ~result.ok
    /\ StartsWith(result.message, <<"T","h","e"," ","w","h","e","e","l"," ","t","a","g","s"," ">>)

\* C22: with requires_python on the Link and ignore_compatibility false,
\* evaluate_link fails with LinkMismatchError when the string is no specifier
\* set and when the set does not contain the target Python version; with
\* ignore_compatibility true neither requires_python nor the tags of a wheel
\* reject the Link; a Link without requires_python passes the step.
C22_RequiresPythonUnlessIgnored ==
    Evaluated =>
        /\ (IsSome(TheLink.requires_python) /\ ~evaluator.ignore_compatibility
               /\ (~RequiresPython.ok
                   \/ ~SpecifiersContain(RequiresPython.val, TargetVersion))) =>
              /\ ~result.ok
              /\ result.kind = "LinkMismatchError"
              /\ (FormatCheck.ok /\ YankCheck.ok) => PythonRejected
        /\ (IsSome(TheLink.requires_python) /\ ~evaluator.ignore_compatibility
               /\ RequiresPython.ok
               /\ SpecifiersContain(RequiresPython.val, TargetVersion)) => ~PythonRejected
        /\ evaluator.ignore_compatibility => (~PythonRejected /\ ~TagsRejected)
        /\ ~IsSome(TheLink.requires_python) => ~PythonRejected

\* a requires_python that is no specifier set rejects the Link
C22_Witness ==
    /\ Evaluated
    /\ ~evaluator.ignore_compatibility
    /\ IsSome(TheLink.requires_python)
    /\ ~RequiresPython.ok
    /\ result = LinkMismatch(<<"I","n","v","a","l","i","d"," ","r","e","q","u","i","r","e","s","-","p","y","t","h","o","n"," ","s","p","e","c","i","f","i","e","r",":"," ","3",".","8"," ","o","r"," ","s","o">>)

\* a requires_python that does not contain the target version rejects the Link
C22_WitnessExcluded ==
    /\ Evaluated
    /\ ~evaluator.ignore_compatibility
    /\ IsSome(TheLink.requires_python)
    /\ RequiresPython.ok
    /\ ~SpecifiersContain(RequiresPython.val, TargetVersion)
    /\ PythonRejected

\* under ignore_compatibility a wheel without a supported tag and with a
\* requires_python that is no specifier set is accepted
C22_WitnessIgnored ==
    /\ Evaluated
    /\ evaluator.ignore_compatibility
    /\ IsSome(TheLink.requires_python)
    /\ ~RequiresPython.ok
    /\ is_wheel(TheLink)
    /\ ~is_compatible(evaluator.target_python, WheelOfLink.val)
    /\ result.ok

\* two or more algorithms are configured, the Link exposes a digest for none
\* of them, and the body was asked for
SeveralConfigured ==
    /\ Evaluated
    /\ Cardinality(DOMAIN evaluator.hashes) >= 2
    /\ DOMAIN evaluator.hashes \cap DOMAIN Exposed = {}
    /\ VersionCheck.ok
    /\ IsSome(args[2])

\* whether the same call is accepted when the configured hashes iterate in
\* the order other and the session answers the same
AcceptedUnder(other) ==
    evaluate_link(evaluator, TheLink, other, Unwrap(args[2])).result.ok

\* C24: with two or more algorithms configured and no digest exposed for any
\* of them, whether evaluate_link accepts the Link does not depend on the
\* algorithm picked for the download: a second run on the same Link, body and
\* configuration, whatever algorithm it picks, accepts iff this run did.
C24_OutcomeIndependentOfPick ==
    SeveralConfigured =>
        \A other \in Orderings(DOMAIN evaluator.hashes) : AcceptedUnder(other) = result.ok

\* the Link is rejected on the digest of the picked algorithm and would be
\* accepted had the other algorithm been picked
C24_Witness ==
    /\ SeveralConfigured
    /\ ~result.ok
    /\ result.message = MismatchText(Picked, evaluator.hashes[Picked], Downloaded)
    /\ \E other \in Orderings(DOMAIN evaluator.hashes) :
          other[1] # Picked /\ AcceptedUnder(other)

-----------------------------------------------------------------------------
(* The Link specification: construction and the renderings of a Link *)

NoEvaluator == [package_name |-> <<>>]

UrlVcsPrefixes == {<<>>, <<"g","i","t","+">>}
UrlSchemes == {<<"h","t","t","p","s",":","/","/">>, <<"s","s","h",":","/","/">>, <<>>, <<"f","i","l","e",":","/","/">>, <<"p","k","g",":">>}
UrlUserinfos == {<<>>, <<"g","i","t","@">>, <<"b","o","b",":","p","w","@">>, <<":","p","w","@">>}
UrlHosts == {<<"h","o","s","t","/">>, <<"h","o","s","t",":">>, <<"h","o","s","t",":","8","0","8","0","/">>, <<"/">>}
UrlPaths == {<<"o","r","g","/","r","e","p","o">>, <<"f","o","o","-","1",".","0",".","z","i","p">>}
UrlFragments == {<<>>, <<"#","s","h","a","2","5","6","=","a","0">>, <<"#","e","g","g","=","f","o","o">>}

LinkUrls ==
    {v \o s \o u \o h \o p \o f :
        v \in UrlVcsPrefixes, s \in UrlSchemes, u \in UrlUserinfos,
        h \in UrlHosts, p \in UrlPaths, f \in UrlFragments}

LinkInit ==
    /\ evaluator = NoEvaluator
    /\ link = None
    /\ result = Ok(<<>>)
    /\ requests = <<>>
    /\ logs = <<>>
    /\ session = PyPISessionNew
    /\ op = "init"
    /\ args \in {<<url>> : url \in LinkUrls}

\* what Link::new leaves behind
NewLinkStep(r) ==
    /\ result' = r
    /\ link' = IF r.ok THEN Some(r.val) ELSE None

\* Link::new(url, None, None, None, None, None) on the URL drawn by LinkInit
NewLink ==
    /\ op = "init"
    /\ NewLinkStep(LinkFromStr(args[1]))
    /\ op' = "Link::new"
    /\ requests' = <<>>
    /\ logs' = <<>>
    /\ UNCHANGED <<session, evaluator, args>>

\* the paths given to Link::from_path
FilePaths == {<<"/","t","m","p","/","f","o","o","-","1",".","0",".","z","i","p">>, <<"/","s","r","v","/","p","k","g","s","/">>, <<"f","o","o","-","1",".","0",".","z","i","p">>}

\* Link::from_path(path)
FromPath ==
    /\ op = "init"
    /\ \E path \in FilePaths :
          /\ NewLinkStep(from_path(path))
          /\ args' = <<path>>
    /\ op' = "Link::from_path"
    /\ requests' = <<>>
    /\ logs' = <<>>
    /\ UNCHANGED <<session, evaluator>>

\* link.redacted
Redact ==
    /\ IsSome(link)
    /\ result' = redacted(Unwrap(link))
    /\ op' = "redacted"
    /\ requests' = <<>>
    /\ logs' = <<>>
    /\ UNCHANGED <<session, evaluator, link, args>>

\* link.to_string()
LinkToString ==
    /\ IsSome(link)
    /\ result' = Ok(Display(Unwrap(link)))
    /\ op' = "to_string"
    /\ requests' = <<>>
    /\ logs' = <<>>
    /\ UNCHANGED <<session, evaluator, link, args>>

LinkNext == NewLink \/ FromPath \/ Redact \/ LinkToString

SpecLink == LinkInit /\ [][LinkNext]_vars

-----------------------------------------------------------------------------
(* Properties of Link::new and Link::redacted, checked under SpecLink *)

Constructed == op = "Link::new"

ScpWithScheme == <<"g","i","t","+","s","s","h",":","/","/","g","i","t","@","h","o","s","t",":","o","r","g","/","r","e","p","o">>
ScpWithoutScheme == <<"g","i","t","+","g","i","t","@","h","o","s","t",":","o","r","g","/","r","e","p","o">>
ScpNormalized == <<"s","s","h",":","/","/","g","i","t","@","h","o","s","t","/","o","r","g","/","r","e","p","o">>

\* what follows the '+' of a URL with a VCS prefix
VcsTail(url) == DropFirst(url, Find(url, <<"+">>))

\* C8 as the specification states it: Link::new('git+ssh://git@host:org/repo')
\* succeeds with vcs 'git' and normalized URL 'ssh://git@host/org/repo'.
C8_SchemeCarryingScpRewritten ==
    (Constructed /\ args[1] = ScpWithScheme) =>
        /\ result.ok
        /\ result.val.vcs = Some(<<"g","i","t">>)
        /\ result.val.normalized = ScpNormalized

\* C8, amended: the ':' after the host is rewritten to '/' only when the URL
\* after the VCS prefix carries no "://".  Link::new('git+git@host:org/repo')
\* succeeds with vcs 'git' and normalized URL 'ssh://git@host/org/repo'; a URL
\* whose tail carries "://" keeps its tail as the normalized URL, and
\* Link::new('git+ssh://git@host:org/repo') fails with UrlError.
C8_OnlySchemelessScpRewritten ==
    (Constructed /\ HasVcsPrefix(args[1])) =>
        /\ args[1] = ScpWithoutScheme =>
              /\ result.ok
              /\ result.val.vcs = Some(<<"g","i","t">>)
              /\ result.val.normalized = ScpNormalized
        /\ (Contains(VcsTail(args[1]), <<":","/","/">>) /\ result.ok) =>
              /\ result.val.vcs = Some(<<"g","i","t">>)
              /\ result.val.normalized = VcsTail(args[1])
        /\ args[1] = ScpWithScheme =>
              /\ ~result.ok
              /\ result.kind = "UrlError"

\* Link::new has rewritten the scp-style URL that carries no scheme
C8_Witness ==
    /\ Constructed
    /\ args[1] = ScpWithoutScheme
    /\ result.ok
    /\ result.val.normalized = ScpNormalized

Redacted == op = "redacted"

\* the URL of the Link carries userinfo
HasUserinfo(l) == l.parsed.username # <<>> \/ IsSome(l.parsed.password)

\* C9: the redacted string of a Link whose URL carries userinfo holds neither
\* the user name nor the password: it is the URL with the userinfo replaced
\* by '***' and no password; the redacted string of a Link whose URL has no
\* authority is its normalized URL.
C9_RedactedHidesUserinfo ==
    (Redacted /\ IsSome(link)) =>
        /\ HasUserinfo(Unwrap(link)) =>
              /\ result.ok
              /\ Unwrap(link).parsed.username # <<>> =>
                    ~Contains(result.val, Unwrap(link).parsed.username)
              /\ IsSome(Unwrap(link).parsed.password) =>
                    ~Contains(result.val, Unwrap(Unwrap(link).parsed.password))
              /\ UrlParse(result.val).ok
              /\ UrlParse(result.val).val
                 = [Unwrap(link).parsed EXCEPT !.username = <<"*","*","*">>, !.password = None]
        /\ ~HasAuthority(Unwrap(link).parsed) => result = Ok(Unwrap(link).normalized)

\* a Link with a user name and a password has been redacted
C9_Witness ==
    /\ Redacted
    /\ Unwrap(link).parsed.username # <<>>
    /\ IsSome(Unwrap(link).parsed.password)
    /\ result.ok
    /\ Contains(result.val, <<"*","*","*","@">>)

\* a Link without an authority has been redacted
C9_WitnessNoAuthority ==
    /\ Redacted
    /\ ~HasAuthority(Unwrap(link).parsed)
    /\ result = Ok(Unwrap(link).normalized)


\* C25: link.redacted returns a string for every Link that Link::new or
\* Link::from_path builds; it neither fails nor panics, also for a file Link
\* and for a Link whose URL has an authority and no host to carry userinfo.
C25_RedactedAlwaysReturns ==
    (Redacted /\ IsSome(link)) => result.ok

\* redacted panics on the Link that Link::from_path built of an absolute path
C25_Witness ==
    /\ Redacted
    /\ args = <<<<"/","t","m","p","/","f","o","o","-","1",".","0",".","z","i","p">>>>
    /\ Unwrap(link).normalized = <<"f","i","l","e",":","/","/","/","t","m","p","/","f","o","o","-","1",".","0",".","z","i","p">>
    /\ HasAuthority(Unwrap(link).parsed)
    /\ IsPanic(result)

\* redacted panics on a Link that Link::new built of a URL with an authority
\* and no host
C25_WitnessNoHost ==
    /\ Redacted
    /\ ~is_file(Unwrap(link))
    /\ HasAuthority(Unwrap(link).parsed)
    /\ ~HasHost(Unwrap(link).parsed)
    /\ IsPanic(result)

\* redacted returns the normalized URL of a Link without authority
C25_WitnessReturns ==
    /\ Redacted
    /\ ~HasAuthority(Unwrap(link).parsed)
    /\ result = Ok(Unwrap(link).normalized)

-----------------------------------------------------------------------------
(* The collector specification: one source, one collect_links *)

\* the most <a> elements of an HTML page, files of a JSON page and entries
\* of a directory
MaxAnchors == 2
MaxFiles == 2
MaxEntries == 2

Anchor(href, yanked, python, metadata, info) ==
    [href |-> href, data_yanked |-> yanked, data_requires_python |-> python,
     data_metadata |-> metadata, data_dist_info_metadata |-> info]

Anchors ==
    {Anchor(Some(<<"f","o","o","-","1",".","0",".","t","a","r",".","g","z">>), None, Some(<<">","=","3",".","8">>), None, Some(<<"s","h","a","2","5","6","=","a","0">>)),
     Anchor(None, None, None, None, None),
     Anchor(Some(<<"h","t","t","p","s",":","/","/">>), None, None, None, None),
     Anchor(Some(<<"/","p","a","c","k","a","g","e","s","/","f","o","o","-","1",".","0","-","p","y","3","-","n","o","n","e","-","a","n","y",".","w","h","l","#","s","h","a","2","5","6","=","a","0">>), Some(<<>>), None,
            Some(<<"s","h","a","2","5","6","=","m","0","=","x">>), None),
     Anchor(Some(<<"b","a","r","-","2",".","0",".","z","i","p">>), None, None, Some(<<"t","r","u","e">>), None)}

PackageFile(url, hashed, python, yanked, info) ==
    [url |-> url, hashes |-> hashed, requires_python |-> python, yanked |-> yanked,
     data_dist_info_metadata |-> info]

YankedNo(b) == [tag |-> "No", flag |-> b, reason |-> <<>>]
YankedYes(reason) == [tag |-> "Yes", flag |-> TRUE, reason |-> reason]

PackageFiles ==
    {PackageFile(Some(<<"f","o","o","-","1",".","0",".","t","a","r",".","g","z">>), Some(MapInsert(EmptyMap, <<"s","h","a","2","5","6">>, <<"a","0">>)),
                 Some(<<">","=","3",".","8">>), Some(YankedNo(FALSE)), None),
     PackageFile(None, None, None, Some(YankedYes(<<"b","a","d">>)), None),
     PackageFile(Some(<<"f","o","o","-","1",".","0",".","z","i","p">>), None, None, None, None),
     PackageFile(Some(<<"h","t","t","p","s",":","/","/">>), None, None, Some(YankedNo(TRUE)), None),
     PackageFile(Some(<<"b","a","r","-","2",".","0",".","z","i","p">>), None, None, Some(YankedYes(<<"b","a","d">>)), None)}

HtmlBody(anchors) == [kind |-> "html", anchors |-> anchors, files |-> <<>>]
JsonBody(files) == [kind |-> "json", anchors |-> <<>>, files |-> files]
UndecodableBody == [kind |-> "undecodable", anchors |-> <<>>, files |-> <<>>]
NoBody == [kind |-> "error", anchors |-> <<>>, files |-> <<>>]

HtmlBodies == {HtmlBody(a) : a \in SeqsBetween(Anchors, 0, MaxAnchors)}
JsonBodies == {JsonBody(f) : f \in SeqsBetween(PackageFiles, 0, MaxFiles)}

Answer(send, status, content_type, body) ==
    [send |-> send, status |-> status, content_type |-> content_type, body |-> body]

SendError == Answer("error", 0, None, NoBody)

ContentTypes ==
    {None, Some(OpaqueHeaderValue)}
    \cup {Some(HeaderValue(t)) :
             t \in {TextHtml, SimpleHtml, SimpleJson, <<"t","e","x","t","/","p","l","a","i","n">>, <<"t","e","x","t","/","h","t","m","l",";"," ","c","h","a","r","s","e","t","=","u","t","f","-","8">>}}

\* the statuses a server answers with
Statuses == {200, 304, 399, 400, 404, 499, 500, 503}

\* what the session answers to the HEAD and to the GET of a page
HeadAnswers ==
    {SendError} \cup {Answer("ok", s, None, NoBody) : s \in {200, 404, 500}}

GetAnswers ==
    {SendError}
    \cup {Answer("ok", s, t, HtmlBody(<<>>)) :
             s \in Statuses, t \in {None, Some(HeaderValue(TextHtml)), Some(HeaderValue(SimpleJson))}}
    \cup {Answer("ok", 200, t, b) :
             t \in ContentTypes, b \in HtmlBodies \cup JsonBodies \cup {UndecodableBody}}

\* the file system under the path of a file source: what the path is, the
\* entries of a directory, what reading a file of it gives
FileSystem(kind, listing, read) == [kind |-> kind, listing |-> listing, read |-> read]

EntryNames == {<<"a",".","h","t","m","l">>, <<"f","o","o","-","1",".","0",".","z","i","p">>}
Listings ==
    {FromIoError(<<"P","e","r","m","i","s","s","i","o","n"," ","d","e","n","i","e","d">>)}
    \cup {Ok(e) : e \in SeqsBetween(EntryNames, 0, MaxEntries)}
Reads == HtmlBodies \cup {UndecodableBody, NoBody}

NoFileSystem == FileSystem("missing", Ok(<<>>), NoBody)

FileSystems ==
    {NoFileSystem}
    \cup {FileSystem("file", Ok(<<>>), r) : r \in Reads}
    \cup {FileSystem("dir", l, r) : l \in Listings, r \in Reads}

CollectSources ==
    {<<"h","t","t","p","s",":","/","/","h","o","s","t","/","s","i","m","p","l","e","/","f","o","o","/">>, <<"h","t","t","p","s",":","/","/","b","o","b",":","p","w","@","h","o","s","t","/","s","i","m","p","l","e","/","f","o","o","/">>,
     <<"h","t","t","p","s",":","/","/","h","o","s","t","/","p","k","g","s","/","f","o","o","-","1",".","0",".","z","i","p">>, <<"h","t","t","p",":","/","/","h","o","s","t","/","p","k","g","s","/","f","o","o","-","1",".","0",".","t","a","r",".","g","z">>,
     <<"f","t","p",":","/","/","h","o","s","t","/","p","k","g","s","/","f","o","o","-","1",".","0",".","w","h","l">>, <<"f","i","l","e",":","/","/","/","s","r","v","/","p","k","g","s">>, <<"f","i","l","e",":","/","/","/","s","r","v","/","i","n","d","e","x",".","h","t","m","l">>,
     <<"f","i","l","e",":","/","/","h","o","s","t","/","s","r","v","/","p","k","g","s">>}

CollectInit ==
    /\ evaluator = NoEvaluator
    /\ link \in {Some(LinkFromStr(url).val) : url \in CollectSources}
    /\ result = Ok(<<>>)
    /\ requests = <<>>
    /\ logs = <<>>
    /\ session = PyPISessionNew
    /\ op = "init"
    /\ args \in {<<expand>> : expand \in BOOLEAN}

\* whether a request with this method was sent
SentMethod(sent, method) == \E i \in 1..Len(sent) : sent[i][1] = method

\* what collect_links leaves behind.  args keeps expand, the answers to the
\* requests that were sent and the file system that was read.
CollectStep(out, expand, head, get, fs) ==
    /\ result' = out.result
    /\ requests' = out.requests
    /\ logs' = out.logs
    /\ args' = <<expand,
                 IF SentMethod(out.requests, "HEAD") THEN Some(head) ELSE None,
                 IF SentMethod(out.requests, "GET") THEN Some(get) ELSE None,
                 fs>>

\* the file system a file source with a path reads, None for any other
FileSystemsOf(source) ==
    IF is_file(source) /\ file_path(source).ok THEN {Some(fs) : fs \in FileSystems}
    ELSE {None}

\* collect_links(client, source, expand): the session answers a remote
\* source, the file system a file source
CollectLinks ==
    /\ op = "init"
    /\ \E head \in IF is_file(Unwrap(link)) THEN {SendError} ELSE HeadAnswers,
          get \in IF is_file(Unwrap(link)) THEN {SendError} ELSE GetAnswers,
          fs \in FileSystemsOf(Unwrap(link)) :
          CollectStep(collect_links(Unwrap(link), args[1], head, get,
                                    IF IsSome(fs) THEN Unwrap(fs) ELSE NoFileSystem),
                      args[1], head, get, fs)
    /\ op' = "collect_links"
    /\ UNCHANGED <<session, evaluator, link>>

CollectNext == CollectLinks

SpecCollect == CollectInit /\ [][CollectNext]_vars

-----------------------------------------------------------------------------
(* Properties of collect_links, checked under SpecCollect *)

Collecting == op = "collect_links"
Source == Unwrap(link)
RemoteSource == ~is_file(Source)

\* the answers the call consumed; an answer it did not consume decides nothing
HeadAnswer == IF IsSome(args[2]) THEN Unwrap(args[2]) ELSE SendError
GetAnswer == IF IsSome(args[3]) THEN Unwrap(args[3]) ELSE SendError
FileAnswer == IF IsSome(args[4]) THEN Unwrap(args[4]) ELSE NoFileSystem

\* the warn line of a page fetch that failed with the message text
WarnLine(text) ==
    LogLine("warn", <<"F","a","i","l","e","d"," ","t","o"," ","c","o","l","l","e","c","t"," ","l","i","n","k","s"," ","f","r","o","m"," ">> \o Source.normalized \o <<":"," ">> \o text)

Warned(text) == Len(logs) = 2 /\ logs[2] = WarnLine(text)

\* C5: a CollectError of the fetch of a remote page is not propagated,
\* collect_links returns Ok with no Link; an error of another kind raised by
\* the fetch of a page is returned unchanged (the IOError of a file page that
\* cannot be read).
C5_OnlyCollectErrorSwallowed ==
    Collecting =>
        /\ RemoteSource =>
              LET page == get_pypi_response(Source, HeadAnswer, GetAnswer).result
              IN /\ (~page.ok /\ page.kind = "CollectError") => result = Ok(<<>>)
                 /\ (~page.ok /\ page.kind # "CollectError") => result = page
                 /\ (IsSome(args[3]) /\ (GetAnswer.send = "error" \/ GetAnswer.status >= 400))
                       => result = Ok(<<>>)
        /\ (~RemoteSource /\ IsSome(args[4]) /\ FileAnswer.kind # "dir"
              /\ FileAnswer.read.kind \in {"error", "undecodable"}) =>
              /\ ~result.ok
              /\ result.kind = "IOError"
              /\ result = ReadToString(FileAnswer)

\* the fetch of a remote page failed on a transport error and nothing was
\* propagated
C5_Witness ==
    /\ Collecting
    /\ RemoteSource
    /\ IsSome(args[3])
    /\ GetAnswer.send = "error"
    /\ result = Ok(<<>>)
    /\ Warned(<<"e","r","r","o","r"," ","s","e","n","d","i","n","g"," ","r","e","q","u","e","s","t">>)

\* a file page could not be read and the IOError was returned
C5_WitnessPropagated ==
    /\ Collecting
    /\ ~RemoteSource
    /\ ~result.ok
    /\ result.kind = "IOError"

HasArchiveExtension(name) == \E e \in ARCHIVE_EXTENSIONS : EndsWith(name, e)

\* C6: the fetch of a remote source whose file name ends with an archive
\* extension sends a HEAD before any GET; a scheme other than http(s) fails
\* with the NotHTTP CollectError and sends nothing; a HEAD status of 400 or
\* above fails with CollectError and sends no GET.
C6_ArchiveSourceHeadFirst ==
    (Collecting /\ RemoteSource /\ HasArchiveExtension(filename(Source))) =>
        IF Source.parsed.scheme \notin {<<"h","t","t","p">>, <<"h","t","t","p","s">>}
        THEN /\ requests = <<>>
             /\ Len(logs) = 2
             /\ Contains(logs[2].message, <<"N","o","t","H","T","T","P">>)
        ELSE /\ requests # <<>>
             /\ requests[1] = HttpHead(Source.normalized)
             /\ (HeadAnswer.send = "ok" /\ HeadAnswer.status >= 400) =>
                   requests = <<HttpHead(Source.normalized)>>

\* an http(s) source with an archive file name is fetched with a GET and no
\* HEAD
C6_Witness ==
    /\ Collecting
    /\ IsHttp(Source)
    /\ HasArchiveExtension(filename(Source))
    /\ requests = <<HttpGet(Source.normalized)>>

\* the GET of the remote page was answered
Answered == Collecting /\ RemoteSource /\ IsSome(args[3]) /\ GetAnswer.send = "ok"

ContentTypeText ==
    IF IsSome(GetAnswer.content_type) /\ Unwrap(GetAnswer.content_type).valid
    THEN Some(Unwrap(GetAnswer.content_type).text) ELSE None

\* C7: after the GET of a remote page, a status of 500 or above gives the
\* CollectError 'Server Error(N): reason' and a status of 400 to 499 the
\* CollectError 'Client Error(N): reason', whatever the Content-Type; below
\* 400 the Content-Type 'text/html' or 'application/vnd.pypi.simple.v1+html'
\* selects the HTML parser, 'application/vnd.pypi.simple.v1+json' the JSON
\* parser, and any other, missing or undecodable Content-Type gives a
\* CollectError.  (collect_links shows a CollectError as the warn line that
\* carries its message and an empty result.)
C7_StatusThenContentType ==
    Answered =>
        /\ GetAnswer.status >= 500 =>
              /\ result = Ok(<<>>)
              /\ Warned(<<"S","e","r","v","e","r"," ","E","r","r","o","r","(">> \o NatToStr(GetAnswer.status) \o <<")",":"," ">>
                        \o CanonicalReason(GetAnswer.status))
        /\ GetAnswer.status = 503 => Warned(<<"S","e","r","v","e","r"," ","E","r","r","o","r","(","5","0","3",")",":"," ","S","e","r","v","i","c","e"," ","U","n","a","v","a","i","l","a","b","l","e">>)
        /\ (GetAnswer.status >= 400 /\ GetAnswer.status < 500) =>
              /\ result = Ok(<<>>)
              /\ Warned(<<"C","l","i","e","n","t"," ","E","r","r","o","r","(">> \o NatToStr(GetAnswer.status) \o <<")",":"," ">>
                        \o CanonicalReason(GetAnswer.status))
        /\ GetAnswer.status = 404 => Warned(<<"C","l","i","e","n","t"," ","E","r","r","o","r","(","4","0","4",")",":"," ","N","o","t"," ","F","o","u","n","d">>)
        /\ GetAnswer.status < 400 =>
              /\ (ContentTypeText \in {Some(<<"t","e","x","t","/","h","t","m","l">>),
                                       Some(<<"a","p","p","l","i","c","a","t","i","o","n","/","v","n","d",".","p","y","p","i",".","s","i","m","p","l","e",".","v","1","+","h","t","m","l">>)}
                    /\ GetAnswer.body.kind # "undecodable") =>
                    /\ Len(logs) = 1
                    /\ result = parse_links_from_html(GetAnswer.body,
                                                      url_without_fragment(Source))
              /\ (ContentTypeText = Some(<<"a","p","p","l","i","c","a","t","i","o","n","/","v","n","d",".","p","y","p","i",".","s","i","m","p","l","e",".","v","1","+","j","s","o","n">>)
                    /\ ResponseJson(GetAnswer).ok) =>
                    /\ Len(logs) = 1
                    /\ result = parse_links_from_json(GetAnswer.body,
                                                      url_without_fragment(Source))
              /\ GetAnswer.content_type = None =>
                    (result = Ok(<<>>) /\ Warned(<<"U","n","s","u","p","p","o","r","t","e","d"," ","C","o","n","t","e","n","t","-","T","y","p","e"," ","h","e","a","d","e","r">>))
              /\ (IsSome(GetAnswer.content_type) /\ ~Unwrap(GetAnswer.content_type).valid) =>
                    (result = Ok(<<>>) /\ Warned(<<"I","n","v","a","l","i","d"," ","C","o","n","t","e","n","t","-","T","y","p","e"," ","h","e","a","d","e","r">>))
              /\ (IsSome(ContentTypeText)
                    /\ ContentTypeText \notin {Some(<<"t","e","x","t","/","h","t","m","l">>),
                                               Some(<<"a","p","p","l","i","c","a","t","i","o","n","/","v","n","d",".","p","y","p","i",".","s","i","m","p","l","e",".","v","1","+","h","t","m","l">>),
                                               Some(<<"a","p","p","l","i","c","a","t","i","o","n","/","v","n","d",".","p","y","p","i",".","s","i","m","p","l","e",".","v","1","+","j","s","o","n">>)}) =>
                    (result = Ok(<<>>) /\ Warned(<<"U","n","s","u","p","p","o","r","t","e","d"," ","C","o","n","t","e","n","t","-","T","y","p","e"," ","h","e","a","d","e","r">>))

\* a server error was reported for a page served as JSON
C7_Witness ==
    /\ Answered
    /\ GetAnswer.status = 503
    /\ ContentTypeText = Some(<<"a","p","p","l","i","c","a","t","i","o","n","/","v","n","d",".","p","y","p","i",".","s","i","m","p","l","e",".","v","1","+","j","s","o","n">>)
    /\ Warned(<<"S","e","r","v","e","r"," ","E","r","r","o","r","(","5","0","3",")",":"," ","S","e","r","v","i","c","e"," ","U","n","a","v","a","i","l","a","b","l","e">>)

\* the JSON parser gave the Link of a page served as JSON
C7_WitnessJson ==
    /\ Answered
    /\ GetAnswer.status = 200
    /\ ContentTypeText = Some(<<"a","p","p","l","i","c","a","t","i","o","n","/","v","n","d",".","p","y","p","i",".","s","i","m","p","l","e",".","v","1","+","j","s","o","n">>)
    /\ result.ok
    /\ result.val # <<>>

\* the HTML parser gave the Links of a page served as HTML
C7_WitnessHtml ==
    /\ Answered
    /\ ContentTypeText = Some(<<"a","p","p","l","i","c","a","t","i","o","n","/","v","n","d",".","p","y","p","i",".","s","i","m","p","l","e",".","v","1","+","h","t","m","l">>)
    /\ result.ok
    /\ Len(result.val) = 2


\* the remote page was served as HTML, or as JSON that deserializes
HtmlPage ==
    /\ Answered
    /\ GetAnswer.status < 400
    /\ ContentTypeText \in {Some(<<"t","e","x","t","/","h","t","m","l">>), Some(<<"a","p","p","l","i","c","a","t","i","o","n","/","v","n","d",".","p","y","p","i",".","s","i","m","p","l","e",".","v","1","+","h","t","m","l">>)}
    /\ GetAnswer.body.kind = "html"

JsonPage ==
    /\ Answered
    /\ GetAnswer.status < 400
    /\ ContentTypeText = Some(<<"a","p","p","l","i","c","a","t","i","o","n","/","v","n","d",".","p","y","p","i",".","s","i","m","p","l","e",".","v","1","+","j","s","o","n">>)
    /\ GetAnswer.body.kind = "json"
    /\ \A i \in 1..Len(GetAnswer.body.files) : IsSome(GetAnswer.body.files[i].yanked)

PageUrl == url_without_fragment(Source)

\* the strictly increasing maps from 1..n into 1..m
Increasing(n, m) == {f \in [1..n -> 1..m] : \A i, j \in 1..n : i < j => f[i] < f[j]}

\* what a map leaves out of 1..m
LeftOut(f, m) == (1..m) \ {f[j] : j \in DOMAIN f}

\* the Link l was built from the <a> element a / from the file of a JSON page
FromAnchor(l, a) ==
    /\ IsSome(a.href)
    /\ EndsWith(l.url, Unwrap(a.href))
    /\ l.comes_from = Some(PageUrl)
    /\ l.yank_reason = a.data_yanked
    /\ l.requires_python = a.data_requires_python

FromFile(l, file) ==
    /\ IsSome(file.url)
    /\ EndsWith(l.url, Unwrap(file.url))
    /\ l.comes_from = Some(PageUrl)
    /\ l.yank_reason = (IF Unwrap(file.yanked).tag = "Yes"
                        THEN Some(Unwrap(file.yanked).reason) ELSE None)
    /\ l.requires_python = file.requires_python
    /\ l.hashes_map = file.hashes

\* the href resolves against the page URL to a URL that Link::new takes
Resolves(href) ==
    /\ UrlJoin(UrlParse(PageUrl).val, href).ok
    /\ LinkFromStr(UrlToString(UrlJoin(UrlParse(PageUrl).val, href).val)).ok

\* C15: the Links of a page are its entries in their order, with entries
\* left out: the <a> elements of an HTML page in document order, without
\* error and without those that have no href or whose href does not resolve
\* or gives no Link; the files of a JSON page in array order.
C15_LinksInPageOrder ==
    /\ HtmlPage =>
          /\ result.ok
          /\ \E f \in Increasing(Len(result.val), Len(GetAnswer.body.anchors)) :
                /\ \A j \in DOMAIN f :
                      FromAnchor(result.val[j], GetAnswer.body.anchors[f[j]])
                /\ \A i \in LeftOut(f, Len(GetAnswer.body.anchors)) :
                      \/ ~IsSome(GetAnswer.body.anchors[i].href)
                      \/ ~Resolves(Unwrap(GetAnswer.body.anchors[i].href))
    /\ (JsonPage /\ result.ok) =>
          \E f \in Increasing(Len(result.val), Len(GetAnswer.body.files)) :
             /\ \A j \in DOMAIN f : FromFile(result.val[j], GetAnswer.body.files[f[j]])
             /\ \A i \in LeftOut(f, Len(GetAnswer.body.files)) :
                   ~IsSome(GetAnswer.body.files[i].url)

\* an <a> element whose href does not resolve was dropped, the one after it
\* kept
C15_Witness ==
    /\ HtmlPage
    /\ Len(GetAnswer.body.anchors) = 2
    /\ GetAnswer.body.anchors[1].href = Some(<<"h","t","t","p","s",":","/","/">>)
    /\ Len(result.val) = 1
    /\ FromAnchor(result.val[1], GetAnswer.body.anchors[2])

\* two different <a> elements gave two Links in their order
C15_WitnessOrder ==
    /\ HtmlPage
    /\ Len(result.val) = 2
    /\ result.val[1].url # result.val[2].url
    /\ FromAnchor(result.val[1], GetAnswer.body.anchors[1])
    /\ FromAnchor(result.val[2], GetAnswer.body.anchors[2])

\* two files of a JSON page gave two Links in their order
C15_WitnessJson ==
    /\ JsonPage
    /\ result.ok
    /\ Len(result.val) = 2
    /\ result.val[1].url # result.val[2].url
    /\ FromFile(result.val[1], GetAnswer.body.files[1])
    /\ FromFile(result.val[2], GetAnswer.body.files[2])

\* the dist_metadata that the metadata attribute of an <a> element stands
\* for: the attribute is data-dist-info-metadata or, without it, data-metadata
MetadataAttribute(a) ==
    IF IsSome(a.data_dist_info_metadata) THEN a.data_dist_info_metadata ELSE a.data_metadata

AttributeMetadata(a) ==
    IF ~IsSome(MetadataAttribute(a)) THEN None
    ELSE Let(Find(Unwrap(MetadataAttribute(a)), <<"=">>), LAMBDA pos :
             IF pos = 0 THEN Some(MetadataEnabled(TRUE))
             ELSE Some(MetadataHashes(
                     MapInsert(EmptyMap,
                               SubSeq(Unwrap(MetadataAttribute(a)), 1, pos - 1),
                               SubSeq(Unwrap(MetadataAttribute(a)), pos + 1,
                                      Len(Unwrap(MetadataAttribute(a))))))))

\* C16: every Link collected from an HTML page carries the dist_metadata of
\* the metadata attribute of its <a> element, data-dist-info-metadata or
\* data-metadata: absent without the attribute, {name: value} split once on
\* '=' when the value has one, enabled-true otherwise.
C16_MetadataFromEitherAttribute ==
    HtmlPage =>
       /\ result.ok
       /\ \E f \in Increasing(Len(result.val), Len(GetAnswer.body.anchors)) :
             \A j \in DOMAIN f :
                /\ FromAnchor(result.val[j], GetAnswer.body.anchors[f[j]])
                /\ result.val[j].dist_metadata
                      = AttributeMetadata(GetAnswer.body.anchors[f[j]])

\* the same, for the <a> elements that carry no data-dist-info-metadata
C16_MetadataFromDataMetadata ==
    (HtmlPage /\ \A i \in 1..Len(GetAnswer.body.anchors) :
                    ~IsSome(GetAnswer.body.anchors[i].data_dist_info_metadata)) =>
       /\ result.ok
       /\ \E f \in Increasing(Len(result.val), Len(GetAnswer.body.anchors)) :
             \A j \in DOMAIN f :
                /\ FromAnchor(result.val[j], GetAnswer.body.anchors[f[j]])
                /\ result.val[j].dist_metadata
                      = AttributeMetadata(GetAnswer.body.anchors[f[j]])

\* a page whose one <a> element carries only data-dist-info-metadata gave a
\* Link without dist_metadata
C16_Witness ==
    /\ HtmlPage
    /\ Len(GetAnswer.body.anchors) = 1
    /\ IsSome(GetAnswer.body.anchors[1].data_dist_info_metadata)
    /\ ~IsSome(GetAnswer.body.anchors[1].data_metadata)
    /\ Len(result.val) = 1
    /\ result.val[1].dist_metadata = None

\* data-metadata with a value that has two '=' was split at the first
C16_WitnessSplitOnce ==
    /\ HtmlPage
    /\ Len(result.val) = 1
    /\ result.val[1].dist_metadata
          = Some(MetadataHashes(MapInsert(EmptyMap, <<"s","h","a","2","5","6">>, <<"m","0","=","x">>)))

-----------------------------------------------------------------------------
(* The Link value specification: two Links, their comparison, the hashes   *)
(* a Link exposes, and get_hash writing a digest into one of them          *)

ValueUrls ==
    {<<"h","t","t","p","s",":","/","/","h","o","s","t","/","f","o","o","-","1",".","0",".","t","a","r",".","g","z">>,
     <<"g","i","t","+","h","t","t","p","s",":","/","/","h","o","s","t","/","f","o","o","-","1",".","0",".","t","a","r",".","g","z">>,
     <<"h","t","t","p","s",":","/","/","h","o","s","t","/","f","o","o","-","1",".","0",".","t","a","r",".","g","z","#","s","h","a","2","5","6","=","a","0">>,
     <<"h","t","t","p","s",":","/","/","h","o","s","t","/","f","o","o","-","1",".","0",".","t","a","r",".","g","z","#","e","g","g","=","f","o","o">>,
     <<"h","t","t","p","s",":","/","/","h","o","s","t","/","f","o","o","-","1",".","0",".","t","a","r",".","g","z","#","s","h","a","2","5","6","=","a","0","&","e","g","g","=","f","o","o","&","b","l","a","k","e","2","=","q","&","m","d","5","=","z","z","&","s","h","a","2","5","6","=","a","1">>}

\* (comes_from, yank_reason, requires_python, hashes_map, dist_metadata)
ValueMetadata ==
    {<<None, None, None, None, None>>,
     <<Some(<<"h","t","t","p","s",":","/","/","h","o","s","t","/","s","i","m","p","l","e","/">>), None, None, None, None>>,
     <<None, Some(<<"b","a","d">>), None, None, None>>,
     <<None, None, Some(<<">","=","3",".","8">>), None, None>>,
     <<None, None, None, Some(EmptyMap), None>>,
     <<None, None, None, Some(MapInsert(EmptyMap, <<"s","h","a","2","5","6">>, <<"z","z">>)), None>>,
     <<None, None, None, None, Some(MetadataEnabled(TRUE))>>}

ValueLinks ==
    {LinkNew(url, m[1], m[2], m[3], m[4], m[5]).val : url \in ValueUrls, m \in ValueMetadata}

\* the algorithms get_hash is asked for
ValueAlgos == {<<"s","h","a","2","5","6">>, <<"b","l","a","k","e","2">>}

\* link is the Link the operations act on, args[1] the Link it is compared to
ValueInit ==
    /\ evaluator = NoEvaluator
    /\ link \in {Some(l) : l \in ValueLinks}
    /\ result = Ok(<<>>)
    /\ requests = <<>>
    /\ logs = <<>>
    /\ session = PyPISessionNew
    /\ op = "init"
    /\ args \in {<<l>> : l \in ValueLinks}

\* what get_hash leaves behind
GetHashStep(out) ==
    /\ result' = out.result
    /\ requests' = out.requests
    /\ link' = Some(out.link)

\* evaluator.get_hash(&mut link, hash_name)
GetHash ==
    /\ op = "init"
    /\ \E hash_name \in ValueAlgos, http \in HttpAnswers :
          GetHashStep(get_hash(evaluator, Unwrap(link), hash_name, http))
    /\ op' = "get_hash"
    /\ logs' = <<>>
    /\ UNCHANGED <<session, evaluator, args>>

\* link == other, hash(link), hash(other)
LinkEquals ==
    /\ op \in {"init", "get_hash"}
    /\ result' = Ok([eq     |-> LinkEq(Unwrap(link), args[1]),
                     hashed |-> <<LinkHash(Unwrap(link)), LinkHash(args[1])>>])
    /\ op' = "Link::eq"
    /\ requests' = <<>>
    /\ logs' = <<>>
    /\ UNCHANGED <<session, evaluator, link, args>>

\* link.hashes()
LinkHashes ==
    /\ op \in {"init", "get_hash"}
    /\ result' = Ok(hashes(Unwrap(link)))
    /\ op' = "Link::hashes"
    /\ requests' = <<>>
    /\ logs' = <<>>
    /\ UNCHANGED <<session, evaluator, link, args>>

ValueNext == GetHash \/ LinkEquals \/ LinkHashes

SpecValue == ValueInit /\ [][ValueNext]_vars

-----------------------------------------------------------------------------
(* Properties of Link equality and Link::hashes, checked under SpecValue *)

Compared == op = "Link::eq"
ThisLink == Unwrap(link)
OtherLink == args[1]

\* the two Links agree on every field that is not the url as given, the vcs
\* prefix, comes_from, hashes_map or dist_metadata
DifferOnlyOutsideIdentity ==
    /\ ThisLink.normalized = OtherLink.normalized
    /\ ThisLink.parsed = OtherLink.parsed
    /\ ThisLink.requires_python = OtherLink.requires_python
    /\ ThisLink.yank_reason = OtherLink.yank_reason

\* C11: two Links are equal iff their normalized URL, requires_python and
\* yank_reason are equal, and equal Links hash alike; Links that differ only
\* in the url as given, the vcs prefix, comes_from, hashes_map or
\* dist_metadata are equal, among them a Link and the same Link after
\* get_hash wrote a digest into its hashes_map.
C11_EqualityOnIdentityFields ==
    Compared =>
        /\ result.val.eq <=> (/\ ThisLink.normalized = OtherLink.normalized
                              /\ ThisLink.requires_python = OtherLink.requires_python
                              /\ ThisLink.yank_reason = OtherLink.yank_reason)
        /\ result.val.eq => result.val.hashed[1] = result.val.hashed[2]
        /\ DifferOnlyOutsideIdentity => result.val.eq

\* a Link compared equal to itself as it was before get_hash stored a digest
C11_Witness ==
    /\ Compared
    /\ ThisLink.url = OtherLink.url
    /\ OtherLink.hashes_map = None
    /\ ThisLink.hashes_map = Some(MapInsert(EmptyMap, <<"s","h","a","2","5","6">>, <<"a","0">>))
    /\ result.val.eq

\* two Links that differ in the url as given and the vcs prefix compare equal
C11_WitnessVcs ==
    /\ Compared
    /\ ThisLink.url # OtherLink.url
    /\ ThisLink.vcs # OtherLink.vcs
    /\ result.val.eq

HashesRead == op = "Link::hashes"

\* the (key, value) pairs of the fragment of the Link
FragmentPairs ==
    IF IsSome(ThisLink.parsed.fragment)
    THEN Range(FormUrlencodedParse(Unwrap(ThisLink.parsed.fragment)))
    ELSE {}

SixHashNames == {<<"m","d","5">>, <<"s","h","a","1">>, <<"s","h","a","2","2","4">>, <<"s","h","a","2","5","6">>, <<"s","h","a","3","8","4">>, <<"s","h","a","5","1","2">>}

\* the pairs of the fragment under one of the six names
FragmentHashPairs == {p \in FragmentPairs : p[1] \in SixHashNames}

\* C12: Link.hashes returns hashes_map whenever it is set, an empty one
\* included; otherwise the pairs of the fragment whose key is one of md5,
\* sha1, sha224, sha256, sha384, sha512 ('#sha256=a0' gives {sha256: a0}),
\* and nothing when the fragment is missing or holds no such key.
C12_HashesMapShadowsFragment ==
    HashesRead =>
        /\ IsSome(ThisLink.hashes_map) => result.val = ThisLink.hashes_map
        /\ (~IsSome(ThisLink.hashes_map) /\ FragmentHashPairs = {}) => result.val = None
        /\ (~IsSome(ThisLink.hashes_map) /\ FragmentHashPairs # {}) =>
              /\ IsSome(result.val)
              /\ DOMAIN Unwrap(result.val) = {p[1] : p \in FragmentHashPairs}
              /\ \A k \in DOMAIN Unwrap(result.val) :
                    <<k, Unwrap(result.val)[k]>> \in FragmentHashPairs
        /\ (~IsSome(ThisLink.hashes_map) /\ ThisLink.parsed.fragment = Some(<<"s","h","a","2","5","6","=","a","0">>)) =>
              result.val = Some(MapInsert(EmptyMap, <<"s","h","a","2","5","6">>, <<"a","0">>))

\* an empty hashes_map shadows the sha256 of the fragment
C12_Witness ==
    /\ HashesRead
    /\ ThisLink.hashes_map = Some(EmptyMap)
    /\ ThisLink.parsed.fragment = Some(<<"s","h","a","2","5","6","=","a","0">>)
    /\ result.val = Some(EmptyMap)

\* the fragment's pairs under the six names, the others left out
C12_WitnessFragment ==
    /\ HashesRead
    /\ ~IsSome(ThisLink.hashes_map)
    /\ Cardinality(FragmentPairs) > Cardinality(FragmentHashPairs)
    /\ IsSome(result.val)
    /\ DOMAIN Unwrap(result.val) = {<<"s","h","a","2","5","6">>, <<"m","d","5">>}

-----------------------------------------------------------------------------
(* The requirement matcher specification: one Package, one Requirement, one *)
(* evaluate_package                                                         *)

PackageVersions ==
    {None} \cup {Some(VersionFromStr(v).val) :
                    v \in {<<"1",".","0">>, <<"2",".","0","a","1">>, <<"2",".","0",".","d","e","v","1">>, <<"2",".","0","r","c","1">>, <<"3",".","1">>}}

PackageLink == LinkFromStr(<<"h","t","t","p","s",":","/","/","h","o","s","t","/","f","o","o","-","1",".","0",".","t","a","r",".","g","z">>).val

Packages ==
    {[name |-> n, version |-> v, link |-> PackageLink] :
        n \in {<<"f","o","o">>, <<"F","o","o","_","B","a","r">>}, v \in PackageVersions}

SpecifierTexts ==
    {<<">","=","1",".","0">>, <<"=","=","2",".","0","a","1">>, <<">","=","1",".","0",",","<","3">>, <<">","2",".","0",".","d","e","v","0">>, <<"~","=","2",".","0","r","c","1">>, <<"!","=","1",".","0">>, <<"<","=","2",".","0",".","d","e","v","1">>}

VersionOrUrls ==
    {None, Some(RequirementUrl(<<"h","t","t","p","s",":","/","/","h","o","s","t","/","f","o","o","-","1",".","0",".","t","a","r",".","g","z">>))}
    \cup {Some(VersionSpecifier(VersionSpecifiersFromStr(t).val)) : t \in SpecifierTexts}

Requirements ==
    {[name |-> n, version_or_url |-> v] : n \in {<<"f","o","o">>, <<"f","o","o",".","b","a","r">>}, v \in VersionOrUrls}

PackageInit ==
    /\ evaluator = NoEvaluator
    /\ link = None
    /\ result = Ok(<<>>)
    /\ requests = <<>>
    /\ logs = <<>>
    /\ session = PyPISessionNew
    /\ op = "init"
    /\ args \in {<<p, r, a>> : p \in Packages, r \in Requirements,
                              a \in {None, Some(TRUE), Some(FALSE)}}

\* evaluate_package(package, requirement, allow_prerelease)
EvaluatePackage ==
    /\ op = "init"
    /\ result' = evaluate_package(args[1], args[2], args[3])
    /\ op' = "evaluate_package"
    /\ requests' = <<>>
    /\ logs' = <<>>
    /\ UNCHANGED <<session, evaluator, link, args>>

PackageNext == EvaluatePackage

SpecPackage == PackageInit /\ [][PackageNext]_vars

-----------------------------------------------------------------------------
(* Properties of evaluate_package, checked under SpecPackage *)

Matched == op = "evaluate_package"
ThePackage == args[1]
TheRequirement == args[2]
AllowArgument == args[3]

\* the clauses of the requirement's specifier, none without a specifier
RequirementClauses ==
    IF IsSome(TheRequirement.version_or_url)
       /\ Unwrap(TheRequirement.version_or_url).tag = "VersionSpecifier"
    THEN Range(Unwrap(TheRequirement.version_or_url).specs)
    ELSE {}

\* some clause has one of ==, ===, >=, <=, ~= and a pre-release version
AutoAdmits ==
    \E c \in RequirementClauses :
        /\ c.operator \in {<<"=","=">>, <<"=","=","=">>, <<">","=">>, <<"<","=">>, <<"~","=">>}
        /\ IsSome(c.version.pre)

AcceptedPrerelease ==
    /\ Matched
    /\ result.ok
    /\ IsSome(ThePackage.version)
    /\ IsSome(Unwrap(ThePackage.version).pre)

\* C13: whenever evaluate_package accepts a Package whose version is a
\* pre-release, allow_prerelease was passed as true or the requirement's
\* specifier has a clause with ==, ===, >=, <= or ~= and a pre-release
\* version; for every requirement, one without a specifier or with a URL
\* included.
C13_PrereleaseNeedsAdmission ==
    AcceptedPrerelease => (AllowArgument = Some(TRUE) \/ AutoAdmits)

\* a pre-release accepted for a requirement without a specifier and without
\* allow_prerelease
C13_Witness ==
    /\ AcceptedPrerelease
    /\ TheRequirement.version_or_url = None
    /\ AllowArgument = None
    /\ ~AutoAdmits

\* a pre-release accepted through a clause that admits pre-releases
C13_WitnessAdmitted ==
    /\ AcceptedPrerelease
    /\ AllowArgument = None
    /\ AutoAdmits

-----------------------------------------------------------------------------
(* The FormatControl specification: FormatControl::new on two flags, then   *)
(* check_format on a Link                                                   *)

FormatLinks == {LinkFromStr(url).val : url \in EvalUrls}

\* args holds only_binary, no_binary and the name given to check_format
FormatInit ==
    /\ evaluator = NoEvaluator
    /\ link \in {Some(l) : l \in FormatLinks}
    /\ result = Ok(<<>>)
    /\ requests = <<>>
    /\ logs = <<>>
    /\ session = PyPISessionNew
    /\ op = "init"
    /\ args \in {<<only_binary, no_binary, <<"f","o","o">>>> :
                    only_binary \in BOOLEAN, no_binary \in BOOLEAN}

\* what FormatControl::new leaves behind
NewFormatControlStep(r) ==
    /\ result' = r
    /\ evaluator' = IF r.ok THEN [package_name |-> args[3], format_control |-> r.val]
                    ELSE evaluator

\* FormatControl::new(only_binary, no_binary)
NewFormatControl ==
    /\ op = "init"
    /\ NewFormatControlStep(FormatControlNew(args[1], args[2]))
    /\ op' = "FormatControl::new"
    /\ requests' = <<>>
    /\ logs' = <<>>
    /\ UNCHANGED <<session, link, args>>

\* format_control.check_format(&link, name)
CheckFormat ==
    /\ op = "FormatControl::new"
    /\ result.ok
    /\ result' = check_format(evaluator.format_control, Unwrap(link), evaluator.package_name)
    /\ op' = "check_format"
    /\ requests' = <<>>
    /\ logs' = <<>>
    /\ UNCHANGED <<session, evaluator, link, args>>

FormatNext == NewFormatControl \/ CheckFormat

SpecFormat == FormatInit /\ [][FormatNext]_vars

-----------------------------------------------------------------------------
(* Properties of FormatControl, checked under SpecFormat *)

FormatBuilt == op = "FormatControl::new"
FormatChecked == op = "check_format"

\* the path of the Link's URL ends in ".whl"
WheelPath == EndsWith(Unwrap(link).parsed.path, <<".","w","h","l">>)

\* C14: FormatControl::new fails with ValueError iff both only_binary and
\* no_binary are set, so no FormatControl holds both flags; check_format
\* fails with LinkMismatchError iff (only_binary and the link is no wheel)
\* or (no_binary and the link is a wheel), and succeeds for every link when
\* neither flag is set.
C14_FormatControlContract ==
    /\ FormatBuilt =>
          /\ ~result.ok <=> (args[1] /\ args[2])
          /\ ~result.ok => result.kind = "ValueError"
          /\ result.ok => (result.val.only_binary = args[1] /\ result.val.no_binary = args[2])
    /\ FormatChecked =>
          /\ ~(evaluator.format_control.only_binary /\ evaluator.format_control.no_binary)
          /\ ~result.ok <=> \/ (evaluator.format_control.only_binary /\ ~WheelPath)
                            \/ (evaluator.format_control.no_binary /\ WheelPath)
          /\ ~result.ok => result.kind = "LinkMismatchError"

\* check_format with no_binary has rejected a wheel
C14_Witness ==
    /\ FormatChecked
    /\ evaluator.format_control.no_binary
    /\ WheelPath
    /\ ~result.ok

\* FormatControl::new has refused both flags
C14_WitnessBoth ==
    /\ FormatBuilt
    /\ args[1] /\ args[2]
    /\ ~result.ok

-----------------------------------------------------------------------------
(* The file-name specifications: splitext on a file name, and the version   *)
(* of a Link that is no wheel, read from its file name                      *)

SplitStems == {<<>>, <<"x">>, <<"x",".","y">>, <<"x","-","1",".","0">>}
SplitMiddles == {<<>>, <<".","t","a","r">>, <<"t","a","r">>, <<".","t","a","r",".","t","a","r">>}
SplitEndings ==
    {<<>>, <<".","g","z">>, <<".","b","z","2">>, <<".","x","z">>, <<".","l","z">>, <<".","l","z","m","a">>, <<".","z","i","p">>, <<".","t","g","z">>, <<".">>}

FileNames == {s \o m \o e : s \in SplitStems, m \in SplitMiddles, e \in SplitEndings}

\* args holds the file name
SplitInit ==
    /\ evaluator = NoEvaluator
    /\ link = None
    /\ result = Ok(<<>>)
    /\ requests = <<>>
    /\ logs = <<>>
    /\ session = PyPISessionNew
    /\ op = "init"
    /\ args \in {<<name>> : name \in FileNames}

\* splitext(&filename)
SplitExt ==
    /\ op = "init"
    /\ result' = Ok(splitext(args[1]))
    /\ op' = "splitext"
    /\ UNCHANGED <<session, evaluator, link, requests, logs, args>>

SplitNext == SplitExt

SpecSplit == SplitInit /\ [][SplitNext]_vars

\* the longest egg-info base
MaxEggLen == 5

\* the egg-info bases: the file names without the extension
EggInfos == SeqsBetween({"f", "-", "_", "1"}, 0, MaxEggLen)

\* the package names, among them one that ends in a separator
EggPackageNames == {<<"f">>, <<"F">>, <<"f","_","f">>, <<"f","-">>}

\* the Link is the .zip archive of an egg-info base; args holds the base
EggInit ==
    /\ evaluator \in {[package_name |-> name] : name \in EggPackageNames}
    /\ \E egg_info \in EggInfos :
          /\ link = Some(LinkFromStr(<<"h","t","t","p","s",":","/","/","h","o","s","t","/">> \o egg_info \o <<".","z","i","p">>).val)
          /\ args = <<egg_info>>
    /\ result = Ok(<<>>)
    /\ requests = <<>>
    /\ logs = <<>>
    /\ session = PyPISessionNew
    /\ op = "init"

\* the version of a Link that is no wheel, as evaluate_link reads it
ReadVersion ==
    /\ op = "init"
    /\ result' = SdistVersion(evaluator, Unwrap(link),
                              canonicalize_name(evaluator.package_name))
    /\ op' = "evaluate_link: version"
    /\ UNCHANGED <<session, evaluator, link, requests, logs, args>>

EggNext == ReadVersion

SpecEgg == EggInit /\ [][EggNext]_vars

-----------------------------------------------------------------------------
(* Properties of splitext, checked under SpecSplit, and of the version of a *)
(* file name, checked under SpecEgg                                         *)

VersionRead == op = "evaluate_link: version"
EggBase == args[1]

\* the positions of the base that hold '-' or '_' and whose prefix is
\* canonically the package name
Qualifying ==
    {i \in 1..Len(EggBase) :
        /\ EggBase[i] \in {"-", "_"}
        /\ canonicalize_name(Slice(EggBase, 1, i - 1))
           = canonicalize_name(evaluator.package_name)}

\* the outcome when the base is split at the position at
SplitAt(at) ==
    IF VersionFromStr(DropFirst(EggBase, at)).ok
    THEN result = Ok(VersionFromStr(DropFirst(EggBase, at)).val)
    ELSE ~result.ok /\ result.kind = "LinkMismatchError"

NoSplit ==
    /\ ~result.ok
    /\ result.kind = "LinkMismatchError"
    /\ result.message = <<"M","i","s","s","i","n","g"," ","v","e","r","s","i","o","n"," ","i","n"," ","t","h","e"," ","f","i","l","e","n","a","m","e"," ">> \o EggBase

\* C18 as stated: the base is split after the longest prefix that is
\* canonically the package name and is followed by '-' or '_'; what follows
\* the separator is the version; without such a prefix, or with a remainder
\* that is no PEP 440 version, the Link is rejected with LinkMismatchError.
C18_SplitAtLongestPrefix ==
    VersionRead =>
        IF Qualifying = {} THEN NoSplit ELSE SplitAt(MaxOrZero(Qualifying))

\* C18: the base is split after the first, the shortest, prefix that is
\* canonically the package name and is followed by '-' or '_'; what follows
\* the separator is the version; without such a prefix, or with a remainder
\* that is no PEP 440 version, the Link is rejected with LinkMismatchError.
C18_SplitAtFirstPrefix ==
    VersionRead =>
        IF Qualifying = {} THEN NoSplit ELSE SplitAt(MinOrZero(Qualifying))

\* two prefixes qualify, and the split after the first gives no version
\* where the split after the longest would
C18_Witness ==
    /\ VersionRead
    /\ Cardinality(Qualifying) = 2
    /\ ~result.ok
    /\ result.message = <<"I","n","v","a","l","i","d"," ","v","e","r","s","i","o","n",":"," ","-","1">>
    /\ VersionFromStr(DropFirst(EggBase, MaxOrZero(Qualifying))).ok

\* the one qualifying prefix of a base gives the version
C18_WitnessVersion ==
    /\ VersionRead
    /\ Cardinality(Qualifying) = 1
    /\ evaluator.package_name = <<"f","_","f">>
    /\ EggBase = <<"f","-","f","-","1">>
    /\ result.ok

\* no prefix of the base qualifies
C18_WitnessMissing ==
    /\ VersionRead
    /\ Qualifying = {}
    /\ Len(EggBase) = MaxEggLen
    /\ NoSplit

SplitDone == op = "splitext"
FileName == args[1]
Base == result.val[1]
Ext == result.val[2]

LastDot == RFind(FileName, <<".">>)

DoubleExtensions == {<<".","t","a","r",".","g","z">>, <<".","t","a","r",".","b","z","2">>, <<".","t","a","r",".","x","z">>, <<".","t","a","r",".","l","z">>, <<".","t","a","r",".","l","z","m","a">>}

\* C19 as stated: base + ext is the name; the split stands before '.tar'
\* only when the name ends in .tar.gz, .tar.bz2, .tar.xz, .tar.lz or
\* .tar.lzma and at the last '.' otherwise; a name without '.' has an empty
\* ext.
C19_SplitBeforeTarOfDoubleExtension ==
    SplitDone =>
        /\ Base \o Ext = FileName
        /\ LastDot = 0 => Ext = <<>>
        /\ LastDot # 0 =>
              IF \E d \in DoubleExtensions : EndsWith(FileName, d)
              THEN \E d \in DoubleExtensions : EndsWith(FileName, d) /\ Ext = d
              ELSE Len(Base) = LastDot - 1

\* C19: base + ext is the name; the split stands before '.tar' whenever the
\* part before the last '.' ends in '.tar', whatever follows the last '.',
\* and at the last '.' otherwise; a name without '.' has an empty ext.
C19_SplitBeforeTar ==
    SplitDone =>
        /\ Base \o Ext = FileName
        /\ LastDot = 0 => Ext = <<>>
        /\ LastDot # 0 =>
              IF EndsWith(Slice(FileName, 1, LastDot - 1), <<".","t","a","r">>)
              THEN Len(Base) = LastDot - 5
              ELSE Len(Base) = LastDot - 1

\* x.tar.zip is split before '.tar'
C19_Witness ==
    /\ SplitDone
    /\ FileName = <<"x",".","t","a","r",".","z","i","p">>
    /\ Base = <<"x">>
    /\ Ext = <<".","t","a","r",".","z","i","p">>

\* a double extension of the archive set is split off whole
C19_WitnessDouble ==
    /\ SplitDone
    /\ FileName = <<"x","-","1",".","0",".","t","a","r",".","g","z">>
    /\ Base = <<"x","-","1",".","0">>
    /\ Ext \in ARCHIVE_EXTENSIONS

\* a name without '.' has an empty ext
C19_WitnessNoDot ==
    /\ SplitDone
    /\ FileName = <<"x","t","a","r">>
    /\ Ext = <<>>

-----------------------------------------------------------------------------
(* The PyPISession specification: a new session, then add_trusted_host and  *)
(* the request methods in any order                                         *)

\* the most calls made on a session
MaxCalls == 3

\* the hosts given to add_trusted_host
Netlocs ==
    {<<"h","o","s","t">>, <<"H","o","s","t",":","8","0","8","0">>, <<"h","o","s","t",":","4","4","3">>, <<":",":","1">>, <<"[","f","e","8","0",":",":","1","]",":","8","4","4","3">>, <<"a"," ","b">>, <<>>,
     <<"h","o","s","t",":","p","o","r","t">>, <<":",":","g">>}

Methods == {"get", "head", "post", "put", "patch", "delete"}

\* a call made on the session: the method, its argument and whether it
\* returned Ok
Call(method, arg, ok) == [method |-> method, arg |-> arg, ok |-> ok]

\* args holds the calls made so far, in order
SessionInit ==
    /\ evaluator = NoEvaluator
    /\ session = PyPISessionNew
    /\ link = None
    /\ result = Ok(<<>>)
    /\ requests = <<>>
    /\ logs = <<>>
    /\ op = "init"
    /\ args = <<>>

\* what add_trusted_host leaves behind
AddTrustedHostStep(host, out) ==
    /\ result' = out.result
    /\ session' = out.session
    /\ args' = Append(args, Call("add_trusted_host", host, out.result.ok))

\* session.add_trusted_host(host)
AddTrustedHost ==
    /\ Len(args) < MaxCalls
    /\ \E host \in Netlocs : AddTrustedHostStep(host, add_trusted_host(session, host))
    /\ op' = "add_trusted_host"
    /\ UNCHANGED <<evaluator, link, requests, logs>>

\* session.get(url), .head(url), .post(url), .put(url), .patch(url),
\* .delete(url): the builder of a request, which is not sent
BuildRequest ==
    /\ Len(args) < MaxCalls
    /\ \E method \in Methods :
          /\ result' = Ok(RequestBuilder(method, <<"h","t","t","p","s",":","/","/","h","o","s","t","/">>))
          /\ args' = Append(args, Call(method, <<"h","t","t","p","s",":","/","/","h","o","s","t","/">>, TRUE))
          /\ op' = method
    /\ UNCHANGED <<evaluator, session, link, requests, logs>>

SessionNext == AddTrustedHost \/ BuildRequest

SpecSession == SessionInit /\ [][SessionNext]_vars

-----------------------------------------------------------------------------
(* Properties of PyPISession, checked under SpecSession *)

Trusted == session.trusted_host_ports

\* the calls of add_trusted_host that returned Ok, in call order
Added == SelectSeq(args, LAMBDA c : c.method = "add_trusted_host" /\ c.ok)

\* the netloc as it is parsed: a bare IPv6 address, two or more ':' and
\* neither '@' nor '[', goes in brackets
Wrapped(netloc) ==
    IF Cardinality({i \in 1..Len(netloc) : netloc[i] = ":"}) >= 2
       /\ \A i \in 1..Len(netloc) : netloc[i] \notin {"@", "["}
    THEN <<"[">> \o netloc \o <<"]">>
    ELSE netloc

\* the entry of a netloc: the host and port of https://netloc
EntryOf(netloc) ==
    [host |-> Unwrap(UrlParse(<<"h","t","t","p","s",":","/","/">> \o Wrapped(netloc)).val.host),
     port |-> IF IsSome(UrlParse(<<"h","t","t","p","s",":","/","/">> \o Wrapped(netloc)).val.port)
              THEN Some(ToNat(Unwrap(UrlParse(<<"h","t","t","p","s",":","/","/">> \o Wrapped(netloc)).val.port)))
              ELSE None]

\* the trusted list holds one entry per successful call, in call order
OneEntryPerCall ==
    /\ Len(Trusted) = Len(Added)
    /\ \A i \in 1..Len(Added) : Trusted[i] = EntryOf(Added[i].arg)

\* what one call does to the list
CallFrame ==
    /\ (op' = "add_trusted_host" /\ result'.ok) =>
          /\ Len(session'.trusted_host_ports) = Len(Trusted) + 1
          /\ SubSeq(session'.trusted_host_ports, 1, Len(Trusted)) = Trusted
          /\ UrlParse(<<"h","t","t","p","s",":","/","/">> \o Wrapped(args'[Len(args')].arg)).ok
    /\ (op' = "add_trusted_host" /\ ~result'.ok) =>
          /\ result'.kind = "ValueError"
          /\ ~UrlParse(<<"h","t","t","p","s",":","/","/">> \o Wrapped(args'[Len(args')].arg)).ok
          /\ session' = session
    /\ op' \in Methods => session' = session

\* C23: after any calls on a session the trusted list holds one (host,
\* optional port) entry per successful add_trusted_host, in call order,
\* duplicates kept; a call whose host does not parse fails with ValueError
\* and leaves the list as it was; a bare IPv6 address is put in brackets
\* before it is parsed; get, head, post, put, patch and delete leave the list
\* as it was.
C23_TrustedHostsInCallOrder ==
    [](OneEntryPerCall) /\ [][CallFrame]_vars

\* a bare IPv6 address, a host that does not parse, and the address again:
\* the list holds the address twice, in brackets
C23_Witness ==
    /\ Len(args) = 3
    /\ args[1] = Call("add_trusted_host", <<":",":","1">>, TRUE)
    /\ args[2] = Call("add_trusted_host", <<"a"," ","b">>, FALSE)
    /\ args[3] = Call("add_trusted_host", <<":",":","1">>, TRUE)
    /\ Trusted = <<[host |-> <<"[",":",":","1","]">>, port |-> None], [host |-> <<"[",":",":","1","]">>, port |-> None]>>
    /\ result.ok

\* a host with a port between two requests
C23_WitnessPort ==
    /\ Len(args) = 3
    /\ args[1].method = "get"
    /\ args[2] = Call("add_trusted_host", <<"H","o","s","t",":","8","0","8","0">>, TRUE)
    /\ args[3].method = "delete"
    /\ Trusted = <<[host |-> <<"h","o","s","t">>, port |-> Some(8080)]>>

\* a host that does not parse fails with ValueError
C23_WitnessInvalid ==
    /\ op = "add_trusted_host"
    /\ ~result.ok
    /\ result = Err("ValueError", <<"I","n","v","a","l","i","d"," ","h","o","s","t",":"," ","h","o","s","t",":","p","o","r","t">>)
    /\ Len(Trusted) = 1

=============================================================================
